---- MODULE Spec2Model ----
(***************************************************************************)
(* ChatState (states/chat_state.py): the per-session reactive state of the *)
(* legal-assistant chat, its event handlers and its background tasks.      *)
(*                                                                         *)
(* Scheduling model.  Regular handlers (@rx.event) run with the session's  *)
(* state lock held from start to end; background tasks                     *)
(* (@rx.event(background=True)) run unlocked and take the lock only inside *)
(* `async with self`.  Every await / yield of a background task is a       *)
(* suspension point, so each action below is the code between two          *)
(* suspension points.  Reads outside `async with self` see the live state  *)
(* (in-memory state manager).  handle_upload is the one regular handler    *)
(* whose awaits let background tasks run their unlocked code while it      *)
(* still holds the lock, so it is split at its per-file boundary and the   *)
(* variable `lock` records that it holds the lock.  The other regular      *)
(* handlers make no remote call between two writes that a background task  *)
(* could tell apart, and are one action each.                              *)
(***************************************************************************)
EXTENDS Integers, Sequences, FiniteSets, TLC

VARIABLES
    messages,          \* list[Message]; each entry also carries the bookkeeping
                       \* fields turn (which send_message appended it, 0 = welcome)
                       \* and writer (which turn's task last wrote its content)
    thread_id,         \* 0 is None
    file_info_list,
    session_files,
    processing,
    streaming,
    uploading,
    thinking_seconds,
    upload_progress,
    upload_error,      \* [kind, name]; kind "none" is the empty string
    is_performing_ocr,
    ocr_progress,      \* [kind, name, page, total]; kind "none" is the empty string
    focus_chat_input,
    openai_api_key,    \* TRUE iff a non-empty key is configured
    assistant_id,      \* TRUE iff a non-empty assistant id is configured
    lock,              \* "free", or "upload" while handle_upload holds the state lock
    upl,               \* handle_upload's position: the batch and the index in it
    turn,              \* number of send_message calls that started a generation
    gen,               \* gen[k]: the generate_response_streaming task of turn k
    tmr,               \* tmr[k]: the thinking_timer task of turn k
    mon,               \* mon[j]: the monitor_session_health task of the j-th page load
    age,               \* age[j]: the cleanup_by_timestamp task of the j-th page load
    loads,             \* number of initialize_chat calls that started janitors
    now,               \* time.time(), in seconds
    ticks,             \* number of clock steps taken
    next_thread,       \* remote API: number of threads created so far
    next_file,         \* remote API: number of files created so far
    remote_deleted,    \* remote API: file ids for which files.delete was called
    emptied_on,        \* bookkeeping: thread id in use when session_files last became
                       \* empty and no generation has started since (0: none)
    toast,             \* the last user notification emitted: [level, by], recorded in
                       \* the specifications that observe notifications
    show_notebook_dialog,
    notebook_title,    \* a sequence of characters
    saved_notebook,    \* persistence layer: the notebook record added last
    temp_files,        \* file system: the names of the files in the temp directory
    limits             \* the bounds of the specification being checked (never changes)

vars == <<messages, thread_id, file_info_list, session_files, processing, streaming,
          uploading, thinking_seconds, upload_progress, focus_chat_input,
          openai_api_key, assistant_id, lock, upl, turn, gen, tmr, mon, age, loads,
          now, ticks, next_thread, next_file, remote_deleted, emptied_on, limits,
          upload_error, is_performing_ocr, ocr_progress, toast,
          show_notebook_dialog, notebook_title, saved_notebook, temp_files>>

flagVars == <<processing, streaming, thinking_seconds, focus_chat_input>>
fileVars == <<file_info_list, session_files, next_file, remote_deleted, emptied_on>>
feedbackVars == <<upload_error, is_performing_ocr, ocr_progress, toast>>
uploadVars == <<uploading, upload_progress, lock, upl, feedbackVars>>
notebookVars == <<show_notebook_dialog, notebook_title, saved_notebook>>
\* what no handler of the chat, of the uploads or of the janitors writes
configVars == <<openai_api_key, assistant_id, limits, notebookVars, temp_files>>
janitorVars == <<mon, age, loads>>
clockVars == <<now, ticks>>

(***************************************************************************)
(* Bounds of the model.                                                    *)
(***************************************************************************)
MaxTurns == 2          \* send_message calls per behaviour (chat specification)
MaxThink == 1          \* thinking_seconds saturates at this value

(***************************************************************************)
(* Program constants.                                                      *)
(***************************************************************************)
max_timeout == 600
AttachWindow == 3
MonitorInterval == 300
SweepInterval == 3600
AVAILABLE_TOOLS == {"buscar_documento_legal"}

None == 0

\* Displayed texts.  A content is a sequence of characters; each fixed text of the
\* program is one symbol.
WelcomeText == <<"Hola! Soy LeyIA">>
ThinkingText == <<"Estoy pensando...">>
SearchingText == <<"Buscando">>
RetryText == <<"Repite la solicitud por favor.">>
RunTimeoutText == <<"Error: La respuesta tardo demasiado.">>
TimerTimeoutText == <<"Error: Tiempo de respuesta agotado.">>
UnexpectedText == <<"Error inesperado">>

Min(a, b) == IF a < b THEN a ELSE b

\* ChatState.get_client: a client exists iff the key is non-empty.
get_client == openai_api_key

\* ChatState.has_api_keys
has_api_keys == assistant_id /\ openai_api_key

Turns == 1..limits.turns
Loads == 1..limits.loads

Welcome == [role |-> "assistant", content |-> WelcomeText, turn |-> 0, writer |-> 0]

\* self.messages[-1]["content"] = c, written by the task of turn k
SetLast(msgs, c, k) ==
    [msgs EXCEPT ![Len(msgs)] = [@ EXCEPT !.content = c, !.writer = k]]

\* s[:n] of Python
FirstSlice(s, n) == IF Len(s) <= n THEN s ELSE SubSeq(s, 1, n)

\* s[-n:] of Python
LastSlice(s, n) == IF Len(s) <= n THEN s ELSE SubSeq(s, Len(s) - n + 1, Len(s))

FileIds(fs) == [i \in 1..Len(fs) |-> fs[i].file_id]
FileNames(fs) == [i \in 1..Len(fs) |-> fs[i].filename]

\* [f for f in fs if f["file_id"] != id]
WithoutId(fs, id) == SelectSeq(fs, LAMBDA f: f.file_id # id)

\* bookkeeping for emptied_on: session_files went from non-empty to empty
EmptiedOn(newFiles) ==
    IF session_files # <<>> /\ newFiles = <<>> /\ thread_id # None
    THEN thread_id ELSE emptied_on

\* next(m["content"] for m in reversed(self.messages) if m["role"] == "user", None)
RECURSIVE LastUserMessage(_)
LastUserMessage(msgs) ==
    IF msgs = <<>> THEN <<>>
    ELSE IF msgs[Len(msgs)].role = "user" THEN msgs[Len(msgs)].content
    ELSE LastUserMessage(SubSeq(msgs, 1, Len(msgs) - 1))

GenIdle ==
    [pc |-> "idle", last_user_message |-> <<>>, current_files |-> <<>>,
     start_files |-> <<>>, start_thread |-> None, stale_thread |-> None,
     created |-> None, sent |-> <<>>, run |-> <<>>,
     first_chunk_processed |-> FALSE, accumulated_response |-> <<>>,
     accumulated_content |-> <<>>, events |-> 0,
     tool_calls |-> <<>>, tool_outputs |-> <<>>, action_result |-> "none",
     terminal |-> "none", deltas |-> <<>>]

TmrIdle == [pc |-> "idle"]
\* checked and files_at_check are bookkeeping: the thread id and the session
\* files of the liveness check in progress
MonIdle == [pc |-> "idle", wake |-> 0, checked |-> None, files_at_check |-> <<>>,
            err |-> [type |-> "none", status_code |-> 0, no_thread_found |-> FALSE]]
AgeIdle == [pc |-> "idle", wake |-> 0, old_files |-> <<>>, current_time |-> 0]

\* the empty strings of upload_error and ocr_progress, and no notification
NoUploadError == [kind |-> "none", name |-> ""]
NoOcrProgress == [kind |-> "none", name |-> "", page |-> 0, total |-> 0]
NoToast == [level |-> "none", by |-> "none"]
\* no notebook record has been added
NoNotebook == [title |-> <<>>, content |-> [cells |-> <<>>, metadata |-> "none"],
               notebook_type |-> "none", workspace_id |-> "none"]

\* yield rx.toast.<level>(...) of handler by
Notify(level, by) == IF limits.toasts THEN [level |-> level, by |-> by] ELSE toast

\* What the rasterizer and the recognizer do for one PDF: convert_from_bytes
\* raises or gives the page images, and image_to_string raises or gives a text
\* for each page: pages is a sequence of [raises, text].
NoOcr == [raster_raises |-> FALSE, pages |-> <<>>]

\* What the environment does for one file of a batch: read says whether
\* file.read and extract_text_from_bytes return (FALSE: one of them raises), text
\* is the text extracted natively, ocr what the OCR engine does if it is invoked,
\* create the answer of files.create: "ok", "api_error" (APIError) or "raises"
\* (any other exception from the upload), or "write_raises": tmp_file.write
\* raises in the file that open(tmp_path, "w") has just created, and files.create
\* is not reached.
NoBehaviour == [read |-> TRUE, text |-> <<>>, ocr |-> NoOcr, create |-> "ok"]

\* handle_upload is not running.  While it runs: files is the batch (the names),
\* i the index of the file at hand, pc "file" or "ocr", cur the behaviour of the
\* file whose OCR is running; handled (one entry per file handled) and base (the
\* two lists as they were when the handler started) are bookkeeping.
UplIdle ==
    [files |-> <<>>, i |-> 0, pc |-> "idle", cur |-> NoBehaviour, handled |-> <<>>,
     base |-> [file_info_list |-> <<>>, session_files |-> <<>>]]

\* The state after construction (class attribute defaults, lines 75-100), for the
\* credentials and bounds given.
InitWith(key, aid, lim) ==
    /\ messages = <<>>
    /\ thread_id = None
    /\ file_info_list = <<>>
    /\ session_files = <<>>
    /\ processing = FALSE
    /\ streaming = FALSE
    /\ uploading = FALSE
    /\ thinking_seconds = 0
    /\ upload_progress = 0
    /\ focus_chat_input = FALSE
    /\ openai_api_key = key
    /\ assistant_id = aid
    /\ lock = "free"
    /\ upl = UplIdle
    /\ upload_error = NoUploadError
    /\ is_performing_ocr = FALSE
    /\ ocr_progress = NoOcrProgress
    /\ toast = NoToast
    /\ turn = 0
    /\ gen = [k \in 1..lim.turns |-> GenIdle]
    /\ tmr = [k \in 1..lim.turns |-> TmrIdle]
    /\ mon = [j \in 1..lim.loads |-> MonIdle]
    /\ age = [j \in 1..lim.loads |-> AgeIdle]
    /\ loads = 0
    /\ now = 0
    /\ ticks = 0
    /\ next_thread = 0
    /\ next_file = 0
    /\ remote_deleted = {}
    /\ emptied_on = None
    /\ show_notebook_dialog = FALSE
    /\ notebook_title = <<>>
    /\ saved_notebook = NoNotebook
    /\ temp_files = {}
    /\ limits = lim

\* A generation that never reaches an await again (the stream loop of lines 568-653
\* re-iterating an exhausted stream) keeps the event loop: nothing else runs.
Alive == \A k \in Turns : gen[k].pc # "spin"

(***************************************************************************)
(* The clock.                                                              *)
(***************************************************************************)
Tick(d) ==
    /\ ticks < limits.ticks
    /\ ticks' = ticks + 1
    /\ now' = now + d
    /\ UNCHANGED <<messages, thread_id, flagVars, fileVars, uploadVars, configVars,
                   turn, gen, tmr, janitorVars, next_thread>>

(***************************************************************************)
(* initialize_chat_simple, initialize_chat                                 *)
(***************************************************************************)
initialize_chat_simple ==
    /\ lock = "free"
    /\ messages = <<>>
    /\ messages' = <<Welcome>>
    /\ UNCHANGED <<thread_id, flagVars, fileVars, uploadVars, configVars, turn, gen,
                   tmr, janitorVars, clockVars, next_thread>>

initialize_chat ==
    /\ lock = "free"
    /\ loads < limits.loads
    /\ messages' = IF messages = <<>> THEN <<Welcome>> ELSE messages
    /\ IF has_api_keys
       THEN /\ loads' = loads + 1
            /\ mon' = [mon EXCEPT ![loads + 1] = [@ EXCEPT !.pc = "sleep", !.wake = now + MonitorInterval]]
            /\ age' = [age EXCEPT ![loads + 1] = [@ EXCEPT !.pc = "sleep", !.wake = now + SweepInterval]]
       ELSE UNCHANGED janitorVars
    /\ UNCHANGED <<thread_id, flagVars, fileVars, uploadVars, configVars, turn, gen,
                   tmr, clockVars, next_thread>>

(***************************************************************************)
(* send_message (lines 397-432)                                            *)
(***************************************************************************)
send_message(user_prompt) ==
    /\ lock = "free"
    /\ user_prompt # <<>>
    /\ ~processing
    /\ IF has_api_keys
       THEN /\ turn < limits.turns
            /\ turn' = turn + 1
            /\ processing' = TRUE
            /\ streaming' = TRUE
            /\ thinking_seconds' = 0
            /\ messages' = messages \o
                  << [role |-> "user", content |-> user_prompt, turn |-> turn + 1, writer |-> turn + 1],
                     [role |-> "assistant", content |-> ThinkingText, turn |-> turn + 1, writer |-> turn + 1] >>
            /\ tmr' = [tmr EXCEPT ![turn + 1] = [@ EXCEPT !.pc = "queued"]]
            /\ gen' = [gen EXCEPT ![turn + 1] = [@ EXCEPT !.pc = "queued"]]
            /\ UNCHANGED toast
       ELSE /\ toast' = Notify("error", "send_message")
            /\ UNCHANGED <<turn, processing, streaming, thinking_seconds, messages, tmr, gen>>
    /\ UNCHANGED <<thread_id, focus_chat_input, fileVars, uploading, upload_progress, lock,
                   upl, upload_error, is_performing_ocr, ocr_progress, configVars,
                   janitorVars, clockVars, next_thread>>

(***************************************************************************)
(* thinking_timer (lines 371-395)                                          *)
(***************************************************************************)
\* lines 373-377: async with self: thinking_seconds = 0; start_time = time.time()
thinking_timer_start(k) ==
    /\ tmr[k].pc = "queued"
    /\ lock = "free"
    /\ thinking_seconds' = 0
    /\ tmr' = [tmr EXCEPT ![k].pc = "first_check"]
    /\ UNCHANGED <<messages, thread_id, processing, streaming, focus_chat_input,
                   fileVars, uploadVars, configVars, turn, gen, janitorVars, clockVars,
                   next_thread>>

\* line 384
TimedOut(elapsed) == elapsed > max_timeout

\* lines 380-389: while self.processing: current_time = time.time(); timeout test.
\* elapsed is current_time - start_time: 0 at the first test, which follows the
\* assignment of start_time with no await between, and at least the second slept
\* at every later one.
thinking_timer_check(k, elapsed) ==
    /\ tmr[k].pc \in {"first_check", "check"}
    /\ IF tmr[k].pc = "first_check" THEN elapsed = 0 ELSE elapsed >= 1
    /\ tmr' = [tmr EXCEPT ![k].pc =
                  IF ~processing THEN "done"
                  ELSE IF TimedOut(elapsed) THEN "timeout"
                  ELSE "sleep"]
    /\ UNCHANGED <<messages, thread_id, flagVars, fileVars, uploadVars, configVars,
                   turn, gen, janitorVars, clockVars, next_thread>>

\* async with self: processing = False; messages[-1]["content"] = "Error: ..."; break
thinking_timer_timeout(k) ==
    /\ tmr[k].pc = "timeout"
    /\ lock = "free"
    /\ processing' = FALSE
    /\ messages' = SetLast(messages, TimerTimeoutText, k)
    /\ tmr' = [tmr EXCEPT ![k].pc = "done"]
    /\ UNCHANGED <<thread_id, streaming, thinking_seconds, focus_chat_input, fileVars,
                   uploadVars, configVars, turn, gen, janitorVars, clockVars, next_thread>>

\* await asyncio.sleep(1); async with self: thinking_seconds += 1
thinking_timer_tick(k) ==
    /\ tmr[k].pc = "sleep"
    /\ lock = "free"
    /\ thinking_seconds' = Min(thinking_seconds + 1, limits.think)
    /\ tmr' = [tmr EXCEPT ![k].pc = "check"]
    /\ UNCHANGED <<messages, thread_id, processing, streaming, focus_chat_input,
                   fileVars, uploadVars, configVars, turn, gen, janitorVars, clockVars,
                   next_thread>>

(***************************************************************************)
(* generate_response_streaming (lines 444-679)                             *)
(***************************************************************************)
\* line 463: not self.thread_id or (not current_files and self.thread_id)
NeedsNewThread(tid, current_files) ==
    tid = None \/ (current_files = <<>> /\ tid # None)

\* lines 488-491: the attachments built from the snapshot
Attachments(current_files) == FileIds(current_files)

\* lines 510-515: the marker appended to the user's text: the attached filenames,
\* or <<>> for "[SISTEMA: No hay archivos subidos]"
Marker(current_files) == FileNames(current_files)

\* lines 525-528: file_search is added to the run's tools
FileSearchEnabled(current_files) == current_files # <<>>

\* lines 453-463: last user message, snapshot of the last three session files, and
\* the decision whether to create a thread
generate_response_streaming_start(k) ==
    /\ gen[k].pc = "queued"
    /\ LET last == LastUserMessage(messages)
           current == LastSlice(session_files, AttachWindow)
       IN gen' = [gen EXCEPT ![k] =
                [@ EXCEPT !.last_user_message = last,
                          !.current_files = current,
                          !.start_files = session_files,
                          !.start_thread = thread_id,
                          !.stale_thread = emptied_on,
                          !.pc = IF last = <<>> THEN "except"
                                 ELSE IF NeedsNewThread(thread_id, current) THEN "create"
                                 ELSE "send"]]
    /\ emptied_on' = None
    /\ UNCHANGED <<messages, thread_id, flagVars, file_info_list, session_files,
                   next_file, remote_deleted, uploadVars, configVars, turn, tmr,
                   janitorVars, clockVars, next_thread>>

\* lines 464-466: thread = client.beta.threads.create(); async with self: thread_id = thread.id
generate_response_streaming_create(k, ok) ==
    /\ gen[k].pc = "create"
    /\ IF ok
       THEN /\ lock = "free"
            /\ next_thread' = next_thread + 1
            /\ thread_id' = next_thread + 1
            /\ gen' = [gen EXCEPT ![k] = [@ EXCEPT !.created = next_thread + 1, !.pc = "send"]]
       ELSE /\ gen' = [gen EXCEPT ![k].pc = "except"]
            /\ UNCHANGED <<next_thread, thread_id>>
    /\ UNCHANGED <<messages, flagVars, fileVars, uploadVars, configVars, turn, tmr,
                   janitorVars, clockVars>>

\* lines 473-523: messages.list (its result is only logged, its errors swallowed),
\* then messages.create called with self.thread_id as it is now.  sent records the
\* call's arguments; a None thread id makes the client raise before any request,
\* ok says whether the remote API accepts the request otherwise.
generate_response_streaming_send(k, ok) ==
    /\ gen[k].pc = "send"
    /\ gen' = [gen EXCEPT ![k] =
           [@ EXCEPT !.sent = << [thread_id |-> thread_id,
                                  content |-> gen[k].last_user_message,
                                  marker |-> Marker(gen[k].current_files),
                                  attachments |-> Attachments(gen[k].current_files)] >>,
                     !.pc = IF ok /\ thread_id # None THEN "run" ELSE "except"]]
    /\ UNCHANGED <<messages, thread_id, flagVars, fileVars, uploadVars, configVars,
                   turn, tmr, janitorVars, clockVars, next_thread>>

\* lines 525-559: runs.create(stream=True) called with self.thread_id as it is now
\* and bounded to 300 s.  run records the call's arguments.
generate_response_streaming_run(k, outcome) ==
    /\ gen[k].pc = "run"
    /\ outcome \in {"ok", "timeout", "error"}
    /\ gen' = [gen EXCEPT ![k] =
           [@ EXCEPT !.run = << [thread_id |-> thread_id,
                                 file_search |-> FileSearchEnabled(gen[k].current_files)] >>,
                     !.pc = IF thread_id = None \/ outcome = "error" THEN "except"
                            ELSE IF outcome = "timeout" THEN "run_timeout"
                            ELSE "stream"]]
    /\ UNCHANGED <<messages, thread_id, flagVars, fileVars, uploadVars, configVars,
                   turn, tmr, janitorVars, clockVars, next_thread>>

\* lines 553-559: except asyncio.TimeoutError: async with self: ...; return
generate_response_streaming_run_timeout(k) ==
    /\ gen[k].pc = "run_timeout"
    /\ lock = "free"
    /\ messages' = SetLast(messages, RunTimeoutText, k)
    /\ processing' = FALSE
    /\ streaming' = FALSE
    /\ gen' = [gen EXCEPT ![k].pc = "finally"]
    /\ UNCHANGED <<thread_id, thinking_seconds, focus_chat_input, fileVars, uploadVars,
                   configVars, turn, tmr, janitorVars, clockVars, next_thread>>

\* lines 581-586
should_update(accumulated_content, text_chunk, late) ==
    \/ Len(accumulated_content) >= 2
    \/ \E i \in 1..Len(text_chunk) : text_chunk[i] \in {"\n", ".", "!", "?"}
    \/ late

\* lines 572-588: a thread.message.delta event with a non-empty text chunk; late
\* says whether 0.05 s have passed since the last update
generate_response_streaming_delta(k, text_chunk, late) ==
    /\ gen[k].pc = "stream"
    /\ gen[k].events < limits.events
    /\ text_chunk # <<>>
    /\ LET acc == gen[k].accumulated_content \o text_chunk
       IN gen' = [gen EXCEPT ![k] =
                [@ EXCEPT !.accumulated_content = acc,
                          !.deltas = @ \o text_chunk,
                          !.events = @ + 1,
                          !.pc = IF should_update(acc, text_chunk, late)
                                 THEN "flush" ELSE "stream"]]
    /\ UNCHANGED <<messages, thread_id, flagVars, fileVars, uploadVars, configVars,
                   turn, tmr, janitorVars, clockVars, next_thread>>

\* lines 589-601: async with self: the displayed message becomes the accumulated
\* response; then the buffer is emptied
generate_response_streaming_flush(k) ==
    /\ gen[k].pc = "flush"
    /\ lock = "free"
    /\ LET resp == gen[k].accumulated_response \o gen[k].accumulated_content
       IN /\ messages' = SetLast(messages, resp, k)
          /\ gen' = [gen EXCEPT ![k] =
                [@ EXCEPT !.first_chunk_processed = TRUE,
                          !.accumulated_response = resp,
                          !.accumulated_content = <<>>,
                          !.pc = "stream"]]
    /\ UNCHANGED <<thread_id, flagVars, fileVars, uploadVars, configVars, turn, tmr,
                   janitorVars, clockVars, next_thread>>

\* Tool dispatch.  A tool call is [id, name, arguments, behaviour]: arguments is
\* "object" (JSON text of an object), "array" (JSON text of a non-object) or
\* "malformed" (not JSON); behaviour is what the registered function does when it
\* is invoked: "returns", "timeout" (runs beyond 120 s) or "raises".
ToolResultText == "resultado"
ToolTimeoutText == "Error: La herramienta tardo demasiado."
ToolErrorText == "Error ejecutando"

\* lines 618-629: the output of one registered call.  A non-object argument value
\* makes the ** call raise inside the try.
ToolOutput(call) ==
    IF call.arguments = "array" THEN ToolErrorText
    ELSE IF call.behaviour = "timeout" THEN ToolTimeoutText
    ELSE IF call.behaviour = "raises" THEN ToolErrorText
    ELSE ToolResultText

\* lines 614-631: the loop over the tool calls; json.loads of a call's arguments
\* (line 616) runs before the registry lookup and outside the try
RECURSIVE DispatchTools(_, _)
DispatchTools(calls, tool_outputs) ==
    IF calls = <<>> THEN [raised |-> FALSE, tool_outputs |-> tool_outputs]
    ELSE LET call == Head(calls) IN
         IF call.arguments = "malformed"
         THEN [raised |-> TRUE, tool_outputs |-> tool_outputs]
         ELSE IF call.name \in AVAILABLE_TOOLS
         THEN DispatchTools(Tail(calls),
                  Append(tool_outputs, [tool_call_id |-> call.id, output |-> ToolOutput(call)]))
         ELSE DispatchTools(Tail(calls), tool_outputs)

\* lines 603-612: a thread.run.requires_action event; async with self: decode the
\* first call's arguments, take its "query", display "Buscando: ..."
generate_response_streaming_requires_action(k, calls) ==
    /\ gen[k].pc = "stream"
    /\ gen[k].events < limits.events
    /\ lock = "free"
    /\ IF calls = <<>> \/ calls[1].arguments # "object"
       THEN /\ gen' = [gen EXCEPT ![k] =
                  [@ EXCEPT !.events = @ + 1, !.tool_calls = calls, !.tool_outputs = <<>>,
                            !.action_result = "raised", !.pc = "except"]]
            /\ UNCHANGED messages
       ELSE /\ gen' = [gen EXCEPT ![k] =
                  [@ EXCEPT !.events = @ + 1, !.tool_calls = calls, !.tool_outputs = <<>>,
                            !.action_result = "none", !.pc = "dispatch"]]
            /\ messages' = SetLast(messages, SearchingText, k)
    /\ UNCHANGED <<thread_id, flagVars, fileVars, uploadVars, configVars, turn, tmr,
                   janitorVars, clockVars, next_thread>>

\* lines 614-641: dispatch every call, then submit the outputs, if any, on
\* self.thread_id as it is now and read the new stream
generate_response_streaming_dispatch(k, submit_ok) ==
    /\ gen[k].pc = "dispatch"
    /\ LET r == DispatchTools(gen[k].tool_calls, <<>>) IN
       gen' = [gen EXCEPT ![k] =
           IF r.raised
           THEN [@ EXCEPT !.action_result = "raised", !.pc = "except"]
           ELSE IF r.tool_outputs = <<>>
           THEN [@ EXCEPT !.action_result = "nothing_to_submit", !.pc = "stream"]
           ELSE IF thread_id = None \/ ~submit_ok
           THEN [@ EXCEPT !.tool_outputs = r.tool_outputs,
                          !.action_result = "submit_failed", !.pc = "except"]
           ELSE [@ EXCEPT !.tool_outputs = r.tool_outputs,
                          !.action_result = "submitted", !.pc = "stream"]]
    /\ UNCHANGED <<messages, thread_id, flagVars, fileVars, uploadVars, configVars,
                   turn, tmr, janitorVars, clockVars, next_thread>>

\* lines 643-650: thread.run.completed, thread.run.failed or error ends the loop;
\* terminal records whether the event was thread.run.completed
generate_response_streaming_end(k, event) ==
    /\ gen[k].pc = "stream"
    /\ event \in {"thread.run.completed", "thread.run.failed", "error"}
    /\ IF event # "thread.run.completed"
       THEN /\ lock = "free"
            /\ messages' = SetLast(messages, RetryText, k)
       ELSE UNCHANGED messages
    /\ gen' = [gen EXCEPT ![k] =
           [@ EXCEPT !.terminal = IF event = "thread.run.completed" THEN "completed"
                                  ELSE "failed",
                     !.pc = "drain"]]
    /\ UNCHANGED <<thread_id, flagVars, fileVars, uploadVars, configVars, turn, tmr,
                   janitorVars, clockVars, next_thread>>

\* lines 568-653: the stream ends with no terminal event: the for loop finishes
\* with should_break_outer_loop False, and while True iterates the exhausted
\* stream again, for ever and without an await
generate_response_streaming_exhausted(k) ==
    /\ gen[k].pc = "stream"
    /\ gen' = [gen EXCEPT ![k].pc = "spin"]
    /\ UNCHANGED <<messages, thread_id, flagVars, fileVars, uploadVars, configVars,
                   turn, tmr, janitorVars, clockVars, next_thread>>

\* reading the stream raises (connection lost)
generate_response_streaming_stream_error(k) ==
    /\ gen[k].pc = "stream"
    /\ gen' = [gen EXCEPT ![k].pc = "except"]
    /\ UNCHANGED <<messages, thread_id, flagVars, fileVars, uploadVars, configVars,
                   turn, tmr, janitorVars, clockVars, next_thread>>

\* lines 655-661: what is left in the buffer is displayed
generate_response_streaming_drain(k) ==
    /\ gen[k].pc = "drain"
    /\ IF gen[k].accumulated_content # <<>>
       THEN /\ lock = "free"
            /\ LET resp == gen[k].accumulated_response \o gen[k].accumulated_content
               IN /\ messages' = SetLast(messages, resp, k)
                  /\ gen' = [gen EXCEPT ![k] =
                         [@ EXCEPT !.accumulated_response = resp, !.pc = "finally"]]
       ELSE /\ gen' = [gen EXCEPT ![k].pc = "finally"]
            /\ UNCHANGED messages
    /\ UNCHANGED <<thread_id, flagVars, fileVars, uploadVars, configVars, turn, tmr,
                   janitorVars, clockVars, next_thread>>

\* lines 665-668: except Exception: async with self: messages[-1] = "Error inesperado: ..."
generate_response_streaming_except(k) ==
    /\ gen[k].pc = "except"
    /\ lock = "free"
    /\ messages' = SetLast(messages, UnexpectedText, k)
    /\ gen' = [gen EXCEPT ![k].pc = "finally"]
    /\ UNCHANGED <<thread_id, flagVars, fileVars, uploadVars, configVars, turn, tmr,
                   janitorVars, clockVars, next_thread>>

\* a finally block that would leave the seconds counter as the timer left it
FinallyKeepingSeconds(k) ==
    /\ gen[k].pc = "finally"
    /\ lock = "free"
    /\ processing' = FALSE
    /\ streaming' = FALSE
    /\ focus_chat_input' = TRUE
    /\ gen' = [gen EXCEPT ![k] = [GenIdle EXCEPT !.pc = "reset_queued"]]
    /\ UNCHANGED <<messages, thread_id, thinking_seconds, fileVars, uploadVars,
                   configVars, turn, tmr, janitorVars, clockVars, next_thread>>

\* lines 669-679: finally: async with self: ...; yield ChatState.reset_focus_trigger
generate_response_streaming_finally(k) ==
    /\ gen[k].pc = "finally"
    /\ lock = "free"
    /\ processing' = FALSE
    /\ streaming' = FALSE
    /\ thinking_seconds' = 0
    /\ focus_chat_input' = TRUE
    /\ gen' = [gen EXCEPT ![k] = [GenIdle EXCEPT !.pc = "reset_queued"]]
    /\ UNCHANGED <<messages, thread_id, fileVars, uploadVars, configVars, turn, tmr,
                   janitorVars, clockVars, next_thread>>

(***************************************************************************)
(* reset_focus_trigger (lines 681-683), as queued by the generation of turn k *)
(***************************************************************************)
reset_focus_trigger(k) ==
    /\ gen[k].pc = "reset_queued"
    /\ lock = "free"
    /\ focus_chat_input' = FALSE
    /\ gen' = [gen EXCEPT ![k].pc = "done"]
    /\ UNCHANGED <<messages, thread_id, processing, streaming, thinking_seconds,
                   fileVars, uploadVars, configVars, turn, tmr, janitorVars, clockVars,
                   next_thread>>

(***************************************************************************)
(* cleanup_session_files (lines 809-819) and limpiar_chat (lines 685-711)  *)
(***************************************************************************)
\* a delete loop that lets the APIError of an already deleted file escape: the
\* loop ends at that file
RECURSIVE DeleteAllStoppingAtError(_, _)
DeleteAllStoppingAtError(files, deleted) ==
    IF files = <<>> THEN [raised |-> FALSE, deleted |-> deleted]
    ELSE IF Head(files).file_id \in deleted
         THEN [raised |-> TRUE, deleted |-> deleted]
         ELSE DeleteAllStoppingAtError(Tail(files), deleted \cup {Head(files).file_id})

\* lines 814-818, 856-861, 888-894: the delete loop of the three cleanup paths.
\* deleted: the ids the remote API has deleted; it answers a delete of one of
\* them with an APIError, which `except APIError: pass` swallows, and the loop
\* goes on with the next file.  raised: an exception leaves the loop.
RECURSIVE DeleteAll(_, _)
DeleteAll(files, deleted) ==
    IF files = <<>> THEN [raised |-> FALSE, deleted |-> deleted]
    ELSE DeleteAll(Tail(files), deleted \cup {Head(files).file_id})

\* the delete loop of cleanup_session_files (it runs with a client and files)
cleanup_session_files_deletes ==
    IF get_client /\ session_files # <<>>
    THEN DeleteAll(session_files, remote_deleted)
    ELSE [raised |-> FALSE, deleted |-> remote_deleted]

\* self.session_files after cleanup_session_files
cleanup_session_files_result ==
    IF get_client /\ session_files # <<>> THEN <<>> ELSE session_files

\* limpiar_chat calls cleanup_session_files first (line 687): an exception leaving
\* it would end the handler before any reset
limpiar_chat ==
    /\ lock = "free"
    /\ remote_deleted' = cleanup_session_files_deletes.deleted
    /\ IF cleanup_session_files_deletes.raised
       THEN UNCHANGED <<session_files, emptied_on, messages, thread_id, file_info_list,
                        processing, uploading, upload_progress, streaming,
                        thinking_seconds, focus_chat_input, ocr_progress, upload_error>>
       ELSE /\ session_files' = cleanup_session_files_result
            /\ emptied_on' = EmptiedOn(cleanup_session_files_result)
            /\ messages' = <<Welcome>>
            /\ thread_id' = None
            /\ file_info_list' = <<>>
            /\ processing' = FALSE
            /\ uploading' = FALSE
            /\ upload_progress' = 0
            /\ streaming' = FALSE
            /\ thinking_seconds' = 0
            /\ focus_chat_input' = FALSE
            /\ ocr_progress' = NoOcrProgress
            /\ upload_error' = NoUploadError
    /\ UNCHANGED <<next_file, lock, upl, is_performing_ocr, toast, configVars, turn, gen,
                   tmr, janitorVars, clockVars, next_thread>>

(***************************************************************************)
(* delete_file (lines 338-357)                                             *)
(***************************************************************************)
\* ok: files.delete succeeds; the remote API answers a delete of a file it has
\* already deleted with an APIError
delete_file(file_id, ok) ==
    /\ lock = "free"
    /\ ok => file_id \notin remote_deleted
    /\ IF ~get_client
       THEN /\ toast' = Notify("error", "delete_file")
            /\ UNCHANGED <<remote_deleted, file_info_list, session_files, emptied_on>>
       ELSE IF ok
       THEN /\ remote_deleted' = remote_deleted \cup {file_id}
            /\ file_info_list' = WithoutId(file_info_list, file_id)
            /\ session_files' = WithoutId(session_files, file_id)
            /\ emptied_on' = EmptiedOn(WithoutId(session_files, file_id))
            /\ toast' = Notify("success", "delete_file")
       ELSE /\ toast' = Notify("error", "delete_file")
            /\ UNCHANGED <<remote_deleted, file_info_list, session_files, emptied_on>>
    /\ UNCHANGED <<messages, thread_id, flagVars, next_file, uploading, upload_progress,
                   lock, upl, upload_error, is_performing_ocr, ocr_progress, configVars,
                   turn, gen, tmr, janitorVars, clockVars, next_thread>>

(***************************************************************************)
(* Texts: a text is a sequence of characters.                              *)
(***************************************************************************)
MinTextLength == 100

Letters(n) == [i \in 1..n |-> "x"]
Spaces(n) == [i \in 1..n |-> " "]

IsSpace(c) == c \in {" ", "\n"}

RECURSIVE LStrip(_)
LStrip(s) == IF s # <<>> /\ IsSpace(Head(s)) THEN LStrip(Tail(s)) ELSE s

RECURSIVE RStrip(_)
RStrip(s) ==
    IF s # <<>> /\ IsSpace(s[Len(s)]) THEN RStrip(SubSeq(s, 1, Len(s) - 1)) ELSE s

\* str.strip()
Strip(s) == RStrip(LStrip(s))

\* "\n".join(parts)
RECURSIVE JoinLines(_)
JoinLines(parts) ==
    IF parts = <<>> THEN <<>>
    ELSE IF Len(parts) = 1 THEN parts[1]
    ELSE parts[1] \o <<"\n">> \o JoinLines(Tail(parts))

\* not text or not text.strip()
NoText(text) == text = <<>> \/ Strip(text) = <<>>

(***************************************************************************)
(* User feedback: upload_error, ocr_progress and the notifications.        *)
(***************************************************************************)
UploadError(kind, name) == [kind |-> kind, name |-> name]

OcrStarting(name) == [kind |-> "start", name |-> name, page |-> 0, total |-> 0]

(***************************************************************************)
(* _perform_ocr_with_progress (lines 183-220)                              *)
(***************************************************************************)
\* lines 198-208: the loop over the pages, up to the first page that raises
RECURSIVE Recognize(_, _)
Recognize(pages, ocr_text_parts) ==
    IF pages = <<>> THEN [raised |-> FALSE, ocr_text_parts |-> ocr_text_parts]
    ELSE IF Head(pages).raises THEN [raised |-> TRUE, ocr_text_parts |-> ocr_text_parts]
    ELSE Recognize(Tail(pages), Append(ocr_text_parts, Head(pages).text))

\* an except clause that would keep the pages recognized before the failure
OcrKeepingPartialText(ocr, file_name, error_before) ==
    LET r == IF ocr.raster_raises THEN [raised |-> TRUE, ocr_text_parts |-> <<>>]
             ELSE Recognize(ocr.pages, <<>>)
    IN [text |-> JoinLines(r.ocr_text_parts),
        raised |-> r.raised,
        upload_error |-> IF r.raised THEN UploadError("ocr", file_name) ELSE error_before,
        is_performing_ocr |-> FALSE,
        ocr_progress |-> NoOcrProgress]

\* lines 191-220: the last value the generator yields, and the fields it leaves;
\* error_before is upload_error when it starts
perform_ocr_with_progress(ocr, file_name, error_before) ==
    LET r == IF ocr.raster_raises THEN [raised |-> TRUE, ocr_text_parts |-> <<>>]
             ELSE Recognize(ocr.pages, <<>>)
        ocr_text_parts == IF r.raised THEN <<>> ELSE r.ocr_text_parts
    IN [text |-> JoinLines(ocr_text_parts),
        raised |-> r.raised,
        upload_error |-> IF r.raised THEN UploadError("ocr", file_name) ELSE error_before,
        is_performing_ocr |-> FALSE,
        ocr_progress |-> NoOcrProgress]

(***************************************************************************)
(* handle_upload (lines 222-336)                                           *)
(***************************************************************************)
\* round(num / den * 100) of Python: halves go to the even neighbour
PyRoundPercent(num, den) ==
    LET q == (100 * num) \div den
        r == (100 * num) % den
    IN IF 2 * r < den THEN q
       ELSE IF 2 * r > den THEN q + 1
       ELSE IF q % 2 = 0 THEN q ELSE q + 1

\* file.name.lower(), for the names of the model
LowerName(name) == IF name = "B.PDF" THEN "b.pdf" ELSE name

\* .endswith(".pdf"), for the names of the model
EndsWithPdf(name) == name \in {"a.pdf", "b.pdf"}

\* a duplicate test that would look at the last registered file only
IsDuplicateOfLast(name, infos) ==
    infos # <<>> /\ infos[Len(infos)].filename = name

\* line 244: any(f["filename"] == file.name for f in self.file_info_list)
IsDuplicate(name, infos) ==
    \E n \in 1..Len(infos) : infos[n].filename = name

\* a test on the length of the text as extracted, whitespace included
NeedsOcrUnstripped(name, extracted_text) ==
    /\ EndsWithPdf(LowerName(name))
    /\ (extracted_text = <<>> \/ Len(extracted_text) < MinTextLength)

\* lines 257-258
NeedsOcr(name, extracted_text) ==
    /\ EndsWithPdf(LowerName(name))
    /\ (extracted_text = <<>> \/ Len(Strip(extracted_text)) < MinTextLength)

\* a text that would be kept when the OCR gives less than was extracted
LongerText(extracted_text, ocr_text) ==
    IF Len(ocr_text) >= Len(extracted_text) THEN ocr_text ELSE extracted_text

\* lines 269-272: extracted_text = "" and then the last string the OCR yields
TextAfterOcr(extracted_text, ocr_text) == ocr_text

\* lines 283-319, for a text that is not empty: the temporary file and files.create
StoreOutcome(f, extracted_text) ==
    IF NoText(extracted_text) THEN "no_text"
    ELSE IF f.create = "ok" THEN "uploaded"
    ELSE IF f.create = "api_error" THEN "api_error"
    ELSE "exception"

\* os.path.splitext(file.name)[0]
Stem(name) ==
    CASE name = "a.pdf" -> "a"
      [] name = "B.PDF" -> "B"
      [] name = "c.txt" -> "c"
      [] OTHER -> name

\* lines 289-292
TempPath(name) == <<"tempdir", Stem(name), "_processed.txt">>

\* lines 294-319: the files of the temp directory after the iteration for the
\* file name.  open(tmp_path, "w") creates the file; the finally clause that
\* removes it belongs to the try block of the upload (lines 297-319), which a
\* write that raises (lines 294-295) never enters.
TempFilesAfter(on_disk, name, f, outcome) ==
    IF ~f.read \/ outcome \notin {"uploaded", "api_error", "exception"} THEN on_disk
    ELSE IF f.create = "write_raises" THEN on_disk \cup {TempPath(name)}
    ELSE (on_disk \cup {TempPath(name)}) \ {TempPath(name)}

\* a loop that would stop at the first file that raises
AfterFileAborting(i, n, outcome) == IF outcome = "exception" THEN n + 1 ELSE i + 1

\* lines 243, 248, 280, 287, 321-330: the loop goes on to the next file whatever
\* happened to this one
AfterFile(i, n, outcome) == i + 1

\* lines 248, 280, 287: continue skips the progress update of line 329
SkipsProgress(outcome) == outcome \in {"duplicate", "ocr_failed", "no_text"}

\* The rest of one iteration of the loop, once the outcome for the file is known.
\* ocr: whether the OCR was invoked; text: the text handed to files.create (<<>>
\* when it was not called); error: upload_error as the part of the iteration
\* before left it; upload_flag, ocr_flag: uploading and is_performing_ocr likewise.
handle_upload_finish(name, f, outcome, ocr, text, error, upload_flag, ocr_flag) ==
    LET created == outcome = "uploaded"
        info == [file_id |-> next_file + 1, filename |-> name, uploaded_at |-> now]
        n == Len(upl.files)
    IN /\ created => next_file < limits.files
       /\ IF created
          THEN /\ next_file' = next_file + 1
               /\ file_info_list' = Append(file_info_list, info)
               /\ session_files' = Append(session_files, info)
          ELSE UNCHANGED <<next_file, file_info_list, session_files>>
       /\ upload_error' =
             CASE outcome = "duplicate" -> UploadError("duplicate", name)
               [] outcome = "ocr_failed" -> error
               [] outcome = "no_text" -> UploadError("no_text", name)
               [] outcome = "uploaded" -> NoUploadError
               [] outcome = "api_error" -> UploadError("api", name)
               [] outcome = "exception" -> UploadError("exception", name)
       /\ toast' =
             CASE outcome = "uploaded" -> Notify("success", "handle_upload")
               [] outcome = "no_text" -> Notify("warning", "handle_upload")
               [] OTHER -> Notify("error", "handle_upload")
       /\ uploading' = IF outcome = "exception" THEN FALSE ELSE upload_flag
       /\ is_performing_ocr' = IF outcome = "exception" THEN FALSE ELSE ocr_flag
       /\ ocr_progress' = NoOcrProgress
       /\ upload_progress' = IF SkipsProgress(outcome) THEN upload_progress
                             ELSE PyRoundPercent(upl.i, n)
       /\ upl' = [upl EXCEPT
                    !.i = AfterFile(upl.i, n, outcome),
                    !.pc = "file",
                    !.cur = NoBehaviour,
                    !.handled = Append(@, [name |-> name, f |-> f, outcome |-> outcome,
                                           ocr |-> ocr, text |-> text,
                                           file_id |-> IF created THEN next_file + 1 ELSE 0])]
       /\ temp_files' = TempFilesAfter(temp_files, name, f, outcome)
       /\ UNCHANGED <<messages, thread_id, flagVars, remote_deleted, emptied_on, lock,
                      openai_api_key, assistant_id, limits, notebookVars, turn, gen, tmr,
                      janitorVars, clockVars, next_thread>>

\* lines 224-241: files is the batch, as the list of its filenames
handle_upload_begin(files) ==
    /\ lock = "free"
    /\ IF files = <<>>
       THEN /\ upload_error' = UploadError("no_files", "")
            /\ toast' = Notify("error", "handle_upload")
            /\ UNCHANGED <<uploading, upload_progress, lock, upl>>
       ELSE /\ upload_progress' = 0
            /\ IF get_client
               THEN /\ uploading' = TRUE
                    /\ upload_error' = NoUploadError
                    /\ lock' = "upload"
                    /\ upl' = [UplIdle EXCEPT
                                 !.files = files, !.i = 1, !.pc = "file",
                                 !.base = [file_info_list |-> file_info_list,
                                           session_files |-> session_files]]
                    /\ UNCHANGED toast
               ELSE /\ uploading' = FALSE
                    /\ upload_error' = UploadError("credentials", "")
                    /\ toast' = Notify("error", "handle_upload")
                    /\ UNCHANGED <<lock, upl>>
    /\ UNCHANGED <<messages, thread_id, flagVars, fileVars, is_performing_ocr,
                   ocr_progress, configVars, turn, gen, tmr, janitorVars, clockVars,
                   next_thread>>

\* lines 243-330: one iteration of the loop over the batch, up to the start of the
\* OCR (lines 261-262, 187-189) if the file needs it.  f is what the environment
\* does for this file.
handle_upload_file(f) ==
    /\ lock = "upload"
    /\ upl.pc = "file"
    /\ upl.i <= Len(upl.files)
    /\ LET name == upl.files[upl.i] IN
       IF IsDuplicate(name, file_info_list)
       THEN handle_upload_finish(name, f, "duplicate", FALSE, <<>>, upload_error,
                                 uploading, is_performing_ocr)
       ELSE IF ~f.read
       THEN handle_upload_finish(name, f, "exception", FALSE, <<>>, upload_error,
                                 uploading, is_performing_ocr)
       ELSE IF NeedsOcr(name, f.text)
       THEN /\ uploading' = FALSE
            /\ is_performing_ocr' = TRUE
            /\ ocr_progress' = OcrStarting(name)
            /\ upl' = [upl EXCEPT !.pc = "ocr", !.cur = f]
            /\ UNCHANGED <<messages, thread_id, flagVars, fileVars, upload_progress,
                           upload_error, toast, lock, configVars, turn, gen, tmr,
                           janitorVars, clockVars, next_thread>>
       ELSE LET outcome == StoreOutcome(f, f.text) IN
            handle_upload_finish(name, f, outcome, FALSE,
                                 IF outcome = "no_text" THEN <<>> ELSE f.text,
                                 upload_error, uploading, is_performing_ocr)

\* lines 191-220 and 269-330: the OCR of the file, and the rest of the iteration
\* with the text it gives
handle_upload_ocr ==
    /\ lock = "upload"
    /\ upl.pc = "ocr"
    /\ LET name == upl.files[upl.i]
           f == upl.cur
           r == perform_ocr_with_progress(f.ocr, name, upload_error)
           extracted_text == TextAfterOcr(f.text, r.text)
           outcome == IF NoText(extracted_text) THEN "ocr_failed"
                      ELSE StoreOutcome(f, extracted_text)
       IN handle_upload_finish(name, f, outcome, TRUE,
                               IF outcome = "ocr_failed" THEN <<>> ELSE extracted_text,
                               r.upload_error, TRUE, r.is_performing_ocr)

\* lines 332-336, and the release of the state lock when the handler returns
handle_upload_end ==
    /\ lock = "upload"
    /\ upl.pc = "file"
    /\ upl.i > Len(upl.files)
    /\ uploading' = FALSE
    /\ is_performing_ocr' = FALSE
    /\ ocr_progress' = NoOcrProgress
    /\ lock' = "free"
    /\ upl' = UplIdle
    /\ UNCHANGED <<messages, thread_id, flagVars, fileVars, upload_progress,
                   upload_error, toast, configVars, turn, gen, tmr, janitorVars,
                   clockVars, next_thread>>

(***************************************************************************)
(* monitor_session_health (lines 821-849), _cleanup_orphaned_files         *)
(* (lines 851-867)                                                         *)
(***************************************************************************)
\* What threads.retrieve can answer: "ok", or an error [type, status_code,
\* no_thread_found].  APIStatusError carries status_code; APIConnectionError is an
\* APIError without that attribute; "Exception" is any error that is no APIError.
\* no_thread_found: str(e) contains "No thread found".
NoError == [type |-> "none", status_code |-> 0, no_thread_found |-> FALSE]
RetrieveErrors ==
    { [type |-> "APIStatusError", status_code |-> 404, no_thread_found |-> TRUE],
      [type |-> "APIStatusError", status_code |-> 404, no_thread_found |-> FALSE],
      [type |-> "APIStatusError", status_code |-> 400, no_thread_found |-> TRUE],
      [type |-> "APIStatusError", status_code |-> 500, no_thread_found |-> FALSE],
      [type |-> "APIConnectionError", status_code |-> 0, no_thread_found |-> FALSE],
      [type |-> "Exception", status_code |-> 0, no_thread_found |-> FALSE] }

\* every APIError taken for a lost thread
RetrieveHandlingAnyAPIError(e) ==
    IF e.type \in {"APIStatusError", "APIConnectionError"} THEN "cleanup" ELSE "logged"

\* lines 840-848: what the handlers of the try do with error e
\*   "cleanup"          _cleanup_orphaned_files is called
\*   "logged"           the error is logged and the loop goes on
\*   "attribute_error"  evaluating e.status_code raises inside the handler, which
\*                      ends the task
RetrieveHandling(e) ==
    IF e.type \in {"APIStatusError", "APIConnectionError"}
    THEN IF e.no_thread_found THEN "cleanup"
         ELSE IF e.type = "APIConnectionError" THEN "attribute_error"
         ELSE IF e.status_code = 404 THEN "cleanup"
         ELSE "logged"
    ELSE "logged"

\* lines 826-831: the loop wakes and decides whether to check the thread
monitor_session_health_wake(j) ==
    /\ mon[j].pc = "sleep"
    /\ now >= mon[j].wake
    /\ IF session_files # <<>> /\ thread_id # None /\ get_client
       THEN mon' = [mon EXCEPT ![j] =
                [@ EXCEPT !.pc = "retrieve", !.checked = thread_id,
                          !.files_at_check = session_files, !.err = NoError]]
       ELSE mon' = [mon EXCEPT ![j] = [@ EXCEPT !.wake = now + MonitorInterval]]
    /\ UNCHANGED <<messages, thread_id, flagVars, fileVars, uploadVars, configVars,
                   turn, gen, tmr, age, loads, clockVars, next_thread>>

\* lines 832-838: threads.retrieve answers without an error
monitor_session_health_alive(j) ==
    /\ mon[j].pc = "retrieve"
    /\ mon' = [mon EXCEPT ![j] = [MonIdle EXCEPT !.pc = "sleep", !.wake = now + MonitorInterval]]
    /\ UNCHANGED <<messages, thread_id, flagVars, fileVars, uploadVars, configVars,
                   turn, gen, tmr, age, loads, clockVars, next_thread>>

\* lines 840-861: threads.retrieve raises e; for the not-found class the delete
\* loop of _cleanup_orphaned_files runs at once (no await before it)
monitor_session_health_error(j, e) ==
    /\ mon[j].pc = "retrieve"
    /\ e \in RetrieveErrors
    /\ LET h == RetrieveHandling(e)
           cleaning == h = "cleanup" /\ get_client /\ session_files # <<>>
           loop == IF cleaning THEN DeleteAll(session_files, remote_deleted)
                   ELSE [raised |-> FALSE, deleted |-> remote_deleted]
       IN /\ mon' = [mon EXCEPT ![j] =
                 IF loop.raised THEN [MonIdle EXCEPT !.err = e, !.pc = "crashed"]
                 ELSE IF cleaning
                 THEN [@ EXCEPT !.err = e, !.pc = "orphan_update"]
                 ELSE [MonIdle EXCEPT !.err = e,
                                      !.pc = IF h = "attribute_error" THEN "crashed"
                                             ELSE "sleep",
                                      !.wake = now + MonitorInterval]]
          /\ remote_deleted' = loop.deleted
    /\ UNCHANGED <<messages, thread_id, flagVars, file_info_list, session_files,
                   next_file, emptied_on, uploadVars, configVars, turn, gen, tmr, age,
                   loads, clockVars, next_thread>>

\* lines 864-866: async with self: session_files = []; thread_id = None
cleanup_orphaned_files_update(j) ==
    /\ mon[j].pc = "orphan_update"
    /\ lock = "free"
    /\ session_files' = <<>>
    /\ thread_id' = None
    /\ emptied_on' = EmptiedOn(<<>>)
    /\ mon' = [mon EXCEPT ![j] = [MonIdle EXCEPT !.err = mon[j].err, !.pc = "sleep",
                                                  !.wake = now + MonitorInterval]]
    /\ UNCHANGED <<messages, flagVars, file_info_list, next_file, remote_deleted,
                   uploadVars, configVars, turn, gen, tmr, age, loads, clockVars,
                   next_thread>>

(***************************************************************************)
(* cleanup_by_timestamp (lines 869-901)                                    *)
(***************************************************************************)
MaxFileAge == 7200

\* file_age >= 7200
IsOldInclusive(file_info, current_time) == current_time - file_info.uploaded_at >= MaxFileAge

\* lines 881-882
IsOld(file_info, current_time) == current_time - file_info.uploaded_at > MaxFileAge

\* lines 874-894: the loop wakes, collects the old files and deletes them remotely
cleanup_by_timestamp_sweep(j) ==
    /\ age[j].pc = "sleep"
    /\ now >= age[j].wake
    /\ LET old_files == SelectSeq(session_files, LAMBDA f: IsOld(f, now))
           deleting == old_files # <<>> /\ get_client
           loop == IF deleting THEN DeleteAll(old_files, remote_deleted)
                   ELSE [raised |-> FALSE, deleted |-> remote_deleted]
       IN /\ age' = [age EXCEPT ![j] =
                 [pc |-> IF loop.raised THEN "crashed"
                         ELSE IF deleting THEN "update" ELSE "sleep",
                  wake |-> now + SweepInterval,
                  old_files |-> old_files,
                  current_time |-> now]]
          /\ remote_deleted' = loop.deleted
    /\ UNCHANGED <<messages, thread_id, flagVars, file_info_list, session_files,
                   next_file, emptied_on, uploadVars, configVars, turn, gen, tmr, mon,
                   loads, clockVars, next_thread>>

\* lines 897-901: async with self: session_files = [f for f in session_files if f not in old_files]
cleanup_by_timestamp_update(j) ==
    /\ age[j].pc = "update"
    /\ lock = "free"
    /\ LET kept == SelectSeq(session_files,
                       LAMBDA f: \A i \in 1..Len(age[j].old_files) : age[j].old_files[i] # f)
       IN /\ session_files' = kept
          /\ emptied_on' = EmptiedOn(kept)
    /\ age' = [age EXCEPT ![j] = [@ EXCEPT !.pc = "sleep", !.wake = now + SweepInterval]]
    /\ UNCHANGED <<messages, thread_id, flagVars, file_info_list, next_file,
                   remote_deleted, uploadVars, configVars, turn, gen, tmr, mon, loads,
                   clockVars, next_thread>>

(***************************************************************************)
(* Steps of the tasks and of the user, over the inputs a specification     *)
(* draws them from.                                                        *)
(***************************************************************************)
Prompts == {<<"q">>}
Elapsed == {0, 1, max_timeout, max_timeout + 1}
RunEvents == {"thread.run.completed", "thread.run.failed", "error"}
RunOutcomes == {"ok", "timeout", "error"}
\* a file whose text is extracted and uploaded
Uploaded == [read |-> TRUE, text |-> Letters(MinTextLength), ocr |-> NoOcr, create |-> "ok"]
\* what can happen to a file that is not a PDF: uploaded, no text extracted,
\* files.create answers APIError, something else raises, the extraction raises
UploadOutcomes ==
    {Uploaded, [Uploaded EXCEPT !.text = <<>>], [Uploaded EXCEPT !.create = "api_error"],
     [Uploaded EXCEPT !.create = "raises"], [Uploaded EXCEPT !.read = FALSE]}
ListedFileIds == {file_info_list[i].file_id : i \in 1..Len(file_info_list)}

TimerStep(k) ==
    \/ thinking_timer_start(k)
    \/ \E elapsed \in Elapsed : thinking_timer_check(k, elapsed)
    \/ thinking_timer_timeout(k)
    \/ thinking_timer_tick(k)

\* a generation up to its stream, and its end: oks are the answers of
\* threads.create and messages.create, outcomes those of runs.create, events the
\* terminal events of the stream
GenStep(k, oks, outcomes, events) ==
    \/ generate_response_streaming_start(k)
    \/ \E ok \in oks : generate_response_streaming_create(k, ok)
    \/ \E ok \in oks : generate_response_streaming_send(k, ok)
    \/ \E o \in outcomes : generate_response_streaming_run(k, o)
    \/ generate_response_streaming_run_timeout(k)
    \/ \E e \in events : generate_response_streaming_end(k, e)
    \/ generate_response_streaming_drain(k)
    \/ generate_response_streaming_except(k)
    \/ generate_response_streaming_finally(k)
    \/ reset_focus_trigger(k)

\* a stream that breaks, or ends with no terminal event
StreamFailStep(k) ==
    \/ generate_response_streaming_exhausted(k)
    \/ generate_response_streaming_stream_error(k)

DeltaStep(k, chunks) ==
    \/ \E c \in chunks, late \in BOOLEAN : generate_response_streaming_delta(k, c, late)
    \/ generate_response_streaming_flush(k)

ToolStep(k, calls) ==
    \/ \E cs \in calls : generate_response_streaming_requires_action(k, cs)
    \/ \E ok \in BOOLEAN : generate_response_streaming_dispatch(k, ok)

UploadStep(batches, outcomes) ==
    \/ \E files \in batches : handle_upload_begin(files)
    \/ \E o \in outcomes : handle_upload_file(o)
    \/ handle_upload_ocr
    \/ handle_upload_end

\* a generation of turn k has started and has not finished its finally block
InFlight(k) == gen[k].pc \notin {"idle", "queued", "reset_queued", "done"}

(***************************************************************************)
(* Spec, the chat specification: one session (page loaded with             *)
(* initialize_chat_simple, credentials configured or not) in which the     *)
(* user sends messages and clears the chat while timers and generations    *)
(* run, in every interleaving.  No file is uploaded and the streams carry  *)
(* no message delta and no tool call.                                      *)
(***************************************************************************)
ChatLimits ==
    [turns |-> MaxTurns, files |-> 0, events |-> 0, think |-> MaxThink,
     loads |-> 0, ticks |-> 0,
     toasts |-> FALSE]

Init == \E key \in BOOLEAN, aid \in BOOLEAN : InitWith(key, aid, ChatLimits)

Next ==
    \/ Alive /\ initialize_chat_simple
    \/ Alive /\ \E p \in Prompts : send_message(p)
    \/ Alive /\ limpiar_chat
    \/ Alive /\ \E k \in Turns : TimerStep(k)
    \/ Alive /\ \E k \in Turns : GenStep(k, BOOLEAN, RunOutcomes, RunEvents)
    \/ Alive /\ \E k \in Turns : StreamFailStep(k)

Spec == Init /\ [][Next]_vars

\* C1: at any time at most one generate_response_streaming task of the session is
\* in flight (started, and not yet past its finally block), whatever the
\* interleaving of send_message, the generations, the timers and limpiar_chat.
AtMostOneGenerationInFlight ==
    Cardinality({k \in Turns : InFlight(k)}) <= 1

\* C2: while a generation is in flight the last message is the assistant
\* placeholder its own send_message appended, and the content of every message was
\* last written by a task of the turn that appended it (the welcome message by
\* none).
WritesLandOnOwnPlaceholder ==
    /\ \A k \in Turns :
          InFlight(k) =>
              /\ messages # <<>>
              /\ messages[Len(messages)].role = "assistant"
              /\ messages[Len(messages)].turn = k
    /\ \A i \in 1..Len(messages) : messages[i].writer = messages[i].turn

(***************************************************************************)
(* SpecThread, the thread specification: the user uploads and deletes      *)
(* files, sends messages and clears the chat while generations run, in     *)
(* every interleaving; the remote API answers every request of a           *)
(* generation.  The k-th file uploaded is named FileName[k].  The timers   *)
(* are not scheduled.                                                      *)
(***************************************************************************)
ThreadFiles == 2       \* remote files created per behaviour (thread specification)

FileName == <<"F1", "F2", "F3", "F4", "F5", "F6", "F7", "F8">>
NextBatch == {<< FileName[next_file + 1] >>}

ThreadLimits ==
    [turns |-> MaxTurns, files |-> ThreadFiles, events |-> 0, think |-> 0,
     loads |-> 0, ticks |-> 0,
     toasts |-> FALSE]

InitThread == InitWith(TRUE, TRUE, ThreadLimits)

NextThread ==
    \/ Alive /\ \E p \in Prompts : send_message(p)
    \/ Alive /\ limpiar_chat
    \/ Alive /\ UploadStep(NextBatch, {Uploaded})
    \/ Alive /\ \E id \in ListedFileIds, ok \in BOOLEAN : delete_file(id, ok)
    \/ Alive /\ \E k \in Turns : GenStep(k, {TRUE}, {"ok"}, {"thread.run.completed"})

SpecThread == InitThread /\ [][NextThread]_vars

\* C3: when session_files became empty while thread id T was in use, the next
\* generation to start creates a thread and sends its message on an id other than
\* T, whatever was uploaded or deleted in between.
FreshThreadAfterEmptying ==
    \A k \in Turns :
        gen[k].stale_thread # None /\ gen[k].sent # <<>> =>
            /\ gen[k].created # None
            /\ gen[k].sent[1].thread_id # gen[k].stale_thread

\* C4: a generation that starts with session_files non-empty and thread_id
\* non-null creates no thread, and calls messages.create and runs.create with the
\* thread id it started with.
ReusesExistingThread ==
    \A k \in Turns :
        gen[k].start_thread # None /\ gen[k].start_files # <<>> =>
            /\ gen[k].created = None
            /\ gen[k].sent # <<>> => gen[k].sent[1].thread_id = gen[k].start_thread
            /\ gen[k].run # <<>> => gen[k].run[1].thread_id = gen[k].start_thread

(***************************************************************************)
(* SpecAttach, the attachment specification: the user uploads up to        *)
(* AttachFiles files, deletes some and sends messages, before and while a  *)
(* generation runs; every upload ends in one of UploadOutcomes;            *)
(* threads.create and messages.create may fail.                            *)
(***************************************************************************)
AttachTurns == 1       \* send_message calls per behaviour (attachment specification)
AttachFiles == 5       \* remote files created per behaviour (attachment specification)

AttachLimits ==
    [turns |-> AttachTurns, files |-> AttachFiles, events |-> 0, think |-> 0,
     loads |-> 0, ticks |-> 0,
     toasts |-> FALSE]

InitAttach == InitWith(TRUE, TRUE, AttachLimits)

NextAttach ==
    \/ Alive /\ \E p \in Prompts : send_message(p)
    \/ Alive /\ UploadStep(NextBatch, UploadOutcomes)
    \/ Alive /\ \E id \in ListedFileIds, ok \in BOOLEAN : delete_file(id, ok)
    \/ Alive /\ \E k \in Turns : GenStep(k, BOOLEAN, {"ok"}, {"thread.run.completed"})

SpecAttach == InitAttach /\ [][NextAttach]_vars

\* C5: the attachments of a generation's outbound message are the file ids of the
\* last min(3, n) entries of session_files as it was when the generation started
\* (n its length), in upload order; the filename marker lists the names of the
\* same entries and file_search is enabled for the run iff there is such an entry.
AttachmentsAreLastThree ==
    \A k \in Turns :
        gen[k].sent # <<>> =>
            LET files == gen[k].start_files
                n == Len(files)
                m == IF n < 3 THEN n ELSE 3
                window == [i \in 1..m |-> files[n - m + i]]
            IN /\ gen[k].sent[1].attachments = [i \in 1..m |-> window[i].file_id]
               /\ \A i \in 1..(m - 1) :
                      gen[k].sent[1].attachments[i] < gen[k].sent[1].attachments[i + 1]
               /\ gen[k].sent[1].marker = [i \in 1..m |-> window[i].filename]
               /\ gen[k].run # <<>> => (gen[k].run[1].file_search <=> m > 0)

\* C5, its case: F1..F5 uploaded, and the message sent and the run started with
\* F3, F4, F5.
AttachedThreeOfFive ==
    \E k \in Turns :
        /\ FileIds(gen[k].start_files) = <<1, 2, 3, 4, 5>>
        /\ gen[k].sent # <<>>
        /\ gen[k].sent[1].attachments = <<3, 4, 5>>
        /\ gen[k].sent[1].marker = <<"F3", "F4", "F5">>
        /\ gen[k].run # <<>>
        /\ gen[k].run[1].file_search

(***************************************************************************)
(* SpecMonitor, the monitor specification: the page is loaded with         *)
(* initialize_chat, which starts monitor_session_health and                *)
(* cleanup_by_timestamp; the clock advances by the monitor's interval, the *)
(* user uploads and deletes files and sends a message, and                 *)
(* threads.retrieve answers or fails in every way of RetrieveErrors.  The  *)
(* clock stays below the first wake of cleanup_by_timestamp.               *)
(***************************************************************************)
MonitorTurns == 1      \* send_message calls per behaviour (monitor specification)
MonitorFiles == 1      \* remote files created per behaviour (monitor specification)
MonitorLoads == 1      \* initialize_chat calls per behaviour (monitor specification)
MonitorTicks == 2      \* clock steps per behaviour (monitor specification)

MonitorLimits ==
    [turns |-> MonitorTurns, files |-> MonitorFiles, events |-> 0, think |-> 0,
     loads |-> MonitorLoads, ticks |-> MonitorTicks,
     toasts |-> FALSE]

MonitorStep(j, errors) ==
    \/ monitor_session_health_wake(j)
    \/ monitor_session_health_alive(j)
    \/ \E e \in errors : monitor_session_health_error(j, e)
    \/ cleanup_orphaned_files_update(j)

InitMonitor == InitWith(TRUE, TRUE, MonitorLimits)

NextMonitor ==
    \/ Alive /\ initialize_chat
    \/ Alive /\ Tick(MonitorInterval)
    \/ Alive /\ \E p \in Prompts : send_message(p)
    \/ Alive /\ UploadStep(NextBatch, {Uploaded})
    \/ Alive /\ \E id \in ListedFileIds, ok \in BOOLEAN : delete_file(id, ok)
    \/ Alive /\ \E k \in Turns : GenStep(k, {TRUE}, {"ok"}, {"thread.run.completed"})
    \/ Alive /\ \E j \in Loads : MonitorStep(j, RetrieveErrors)

SpecMonitor == InitMonitor /\ [][NextMonitor]_vars

(***************************************************************************)
(* SpecAge, the age specification: as SpecMonitor, with the clock          *)
(* advancing by one second or by the sweep's interval, cleanup_by_timestamp *)
(* scheduled, and threads.retrieve answering or reporting a lost thread.   *)
(***************************************************************************)
AgeTurns == 1          \* send_message calls per behaviour (age specification)
AgeFiles == 2          \* remote files created per behaviour (age specification)
AgeLoads == 1          \* initialize_chat calls per behaviour (age specification)
AgeTicks == 3          \* clock steps per behaviour (age specification)

ClockSteps == {1, SweepInterval}

\* the one failure of threads.retrieve in this specification: the thread is gone
LostThread == {e \in RetrieveErrors : e.status_code = 404 /\ e.no_thread_found}

AgeLimits ==
    [turns |-> AgeTurns, files |-> AgeFiles, events |-> 0, think |-> 0,
     loads |-> AgeLoads, ticks |-> AgeTicks,
     toasts |-> FALSE]

AgeStep(j) ==
    \/ cleanup_by_timestamp_sweep(j)
    \/ cleanup_by_timestamp_update(j)

InitAge == InitWith(TRUE, TRUE, AgeLimits)

NextAge ==
    \/ Alive /\ initialize_chat
    \/ Alive /\ \E d \in ClockSteps : Tick(d)
    \/ Alive /\ \E p \in Prompts : send_message(p)
    \/ Alive /\ UploadStep(NextBatch, {Uploaded})
    \/ Alive /\ \E id \in ListedFileIds, ok \in BOOLEAN : delete_file(id, ok)
    \/ Alive /\ \E k \in Turns : GenStep(k, {TRUE}, {"ok"}, {"thread.run.completed"})
    \/ Alive /\ \E j \in Loads : MonitorStep(j, LostThread)
    \/ Alive /\ \E j \in Loads : AgeStep(j)

SpecAge == InitAge /\ [][NextAge]_vars

\* the not-found class of the claims: status 404, or a message containing
\* "No thread found"
NotFoundClass(e) == e.status_code = 404 \/ e.no_thread_found

\* C6: when the liveness check of the monitor has got a not-found error, then once
\* its handling is over a remote delete has been issued for every file that was in
\* session_files at the check, session_files is [] and thread_id is None.
NotFoundLeavesCleanSession ==
    [][\A j \in Loads :
          ( \/ /\ mon[j].pc = "retrieve"
               /\ mon'[j].pc = "sleep"
               /\ NotFoundClass(mon'[j].err)
            \/ /\ mon[j].pc = "orphan_update"
               /\ mon'[j].pc = "sleep" )
          => /\ session_files' = <<>>
             /\ thread_id' = None
             /\ \A i \in 1..Len(mon[j].files_at_check) :
                    mon[j].files_at_check[i].file_id \in remote_deleted']_vars

\* C7: a sweep of cleanup_by_timestamp issues a remote delete for exactly the
\* session files aged more than 7200 s and for no other file, and the update that
\* follows removes exactly those from session_files, whatever thread_id is.
SweepDeletesExactlyOldFiles ==
    [][\A j \in Loads :
          /\ (age[j].pc = "sleep" /\ age'[j] # age[j] /\ get_client) =>
                 LET old == {i \in 1..Len(session_files) :
                                now - session_files[i].uploaded_at > 7200}
                 IN /\ remote_deleted' =
                           remote_deleted \cup {session_files[i].file_id : i \in old}
                    /\ session_files' = session_files
                    /\ (age'[j].pc = "update") <=> (old # {})
          /\ (age[j].pc = "update" /\ age'[j].pc = "sleep") =>
                 /\ session_files' =
                        SelectSeq(session_files,
                                  LAMBDA f: age[j].current_time - f.uploaded_at <= 7200)
                 /\ remote_deleted' = remote_deleted]_vars

\* C7, its case: a sweep has just found one file aged 7201 s, deleted remotely,
\* beside one aged 7200 s, which stays and is not deleted.
SweptAtTheBoundary ==
    \E j \in Loads :
        /\ age[j].pc = "update"
        /\ \E i \in 1..Len(age[j].old_files) :
               /\ age[j].current_time - age[j].old_files[i].uploaded_at = 7201
               /\ age[j].old_files[i].file_id \in remote_deleted
        /\ \E i \in 1..Len(session_files) :
               /\ age[j].current_time - session_files[i].uploaded_at = 7200
               /\ session_files[i].file_id \notin remote_deleted

\* C8: when the liveness check fails with an error that is not of the not-found
\* class, the monitor issues no remote delete, leaves session_files and thread_id
\* as they are and does not go on to the orphan cleanup.
OtherErrorChangesNothing ==
    [][\A j \in Loads :
          ( /\ mon[j].pc = "retrieve"
            /\ mon'[j].pc # "retrieve"
            /\ mon'[j].err # NoError
            /\ ~NotFoundClass(mon'[j].err) )
          => /\ UNCHANGED <<session_files, thread_id, remote_deleted>>
             /\ mon'[j].pc \in {"sleep", "crashed"}]_vars

\* C8, its case: the check has just failed with status 500 (then with a connection
\* error) while the session had files and a thread, and nothing was deleted.
OtherErrorSeen ==
    \E j \in Loads :
        /\ mon[j].pc \in {"sleep", "crashed"}
        /\ mon[j].err \in RetrieveErrors
        /\ ~NotFoundClass(mon[j].err)
        /\ session_files # <<>>
        /\ thread_id # None
        /\ remote_deleted = {}

(***************************************************************************)
(* SpecTools, the tool specification: one message is sent; its timer runs; *)
(* the stream of its run carries message deltas and requires_action events *)
(* with up to MaxCalls tool calls each, of registered and unregistered     *)
(* names, with arguments that decode or not and tools that return, time    *)
(* out or raise; the stream ends with a terminal event, breaks or ends     *)
(* with none.                                                              *)
(***************************************************************************)
ToolTurns == 1         \* send_message calls per behaviour (tool specification)
ToolEvents == 2        \* delta and requires_action events per generation
MaxCalls == 2          \* tool calls per requires_action event

ToolChunks == {<<"a">>, <<".">>}
ToolNames == AVAILABLE_TOOLS \cup {"herramienta_desconocida"}

\* the behaviour of a tool matters only when it is invoked
CallKinds ==
    {c \in [name : ToolNames, arguments : {"object", "array", "malformed"},
            behaviour : {"returns", "timeout", "raises"}] :
        (c.name \notin AVAILABLE_TOOLS \/ c.arguments # "object") => c.behaviour = "returns"}

\* the tool-call lists of an event; the i-th call has tool_call_id i
ToolCallLists ==
    {[i \in DOMAIN cs |-> [id |-> i, name |-> cs[i].name, arguments |-> cs[i].arguments,
                           behaviour |-> cs[i].behaviour]] :
        cs \in UNION {[1..n -> CallKinds] : n \in 1..MaxCalls}}

ToolLimits ==
    [turns |-> ToolTurns, files |-> 0, events |-> ToolEvents, think |-> MaxThink,
     loads |-> 0, ticks |-> 0,
     toasts |-> FALSE]

InitTools == InitWith(TRUE, TRUE, ToolLimits)

NextTools ==
    \/ Alive /\ initialize_chat_simple
    \/ Alive /\ \E p \in Prompts : send_message(p)
    \/ Alive /\ \E k \in Turns : TimerStep(k)
    \/ Alive /\ \E k \in Turns : GenStep(k, BOOLEAN, RunOutcomes, RunEvents)
    \/ Alive /\ \E k \in Turns : StreamFailStep(k)
    \/ Alive /\ \E k \in Turns : DeltaStep(k, ToolChunks)
    \/ Alive /\ \E k \in Turns : ToolStep(k, ToolCallLists)

SpecTools == InitTools /\ [][NextTools]_vars

Registered(call) == call.name \in AVAILABLE_TOOLS

\* C9: for every requires_action event handled, a call of an unregistered name
\* raises nothing and adds no output, each call of a registered name adds exactly
\* one output with its tool_call_id, in the order of the calls, and a registered
\* tool that runs beyond 120 s adds the timeout error string.  (Stated for the
\* events whose registered calls all have arguments that decode to an object, so
\* that an error can only come from a call of an unregistered name.)
UnregisteredCallsAreSkipped ==
    \A k \in Turns :
        ( /\ gen[k].action_result # "none"
          /\ \A i \in 1..Len(gen[k].tool_calls) :
                 Registered(gen[k].tool_calls[i]) => gen[k].tool_calls[i].arguments = "object" )
        => LET reg == SelectSeq(gen[k].tool_calls, Registered)
           IN /\ gen[k].action_result # "raised"
              /\ Len(gen[k].tool_outputs) = Len(reg)
              /\ \A i \in 1..Len(reg) :
                     /\ gen[k].tool_outputs[i].tool_call_id = reg[i].id
                     /\ reg[i].behaviour = "timeout" =>
                            gen[k].tool_outputs[i].output = ToolTimeoutText

\* C10: for every requires_action event handled, no failure of a tool call (a
\* timeout, an exception of the tool, an exception decoding its arguments) ends
\* the generation: every call of a registered name has an output, an error string
\* if the call failed, and the outputs are handed to submit_tool_outputs.
ToolFailuresBecomeOutputs ==
    \A k \in Turns :
        gen[k].action_result # "none" =>
            /\ gen[k].action_result \in {"submitted", "submit_failed", "nothing_to_submit"}
            /\ \A i \in 1..Len(gen[k].tool_calls) :
                   LET call == gen[k].tool_calls[i] IN
                   Registered(call) =>
                       \E n \in 1..Len(gen[k].tool_outputs) :
                           /\ gen[k].tool_outputs[n].tool_call_id = call.id
                           /\ (call.arguments # "object" \/ call.behaviour # "returns") =>
                                  gen[k].tool_outputs[n].output \in {ToolTimeoutText, ToolErrorText}

(***************************************************************************)
(* The end of a generation.                                                *)
(***************************************************************************)
\* C11: the step with which a generate_response_streaming task ends, whatever
\* path led to it (terminal event, exception, run-creation timeout), leaves
\* processing = False, streaming = False and thinking_seconds = 0, and the
\* reset_focus_trigger it queued leaves focus_chat_input = False.
GenerationEndResetsFlags ==
    [][\A k \in Turns :
          /\ (InFlight(k) /\ ~InFlight(k)') =>
                 (~processing' /\ ~streaming' /\ thinking_seconds' = 0)
          /\ (gen[k].pc = "reset_queued" /\ gen'[k].pc = "done") =>
                 ~focus_chat_input']_vars

\* C11, its case: the run creation timed out, the timer stopped, the generation
\* ended and its reset_focus_trigger ran.
EndedByRunTimeout ==
    \E k \in Turns :
        /\ gen[k].pc = "done"
        /\ tmr[k].pc = "done"
        /\ messages[Len(messages)].content = RunTimeoutText
        /\ ~processing /\ ~streaming /\ thinking_seconds = 0 /\ ~focus_chat_input

\* C12: when the stream has delivered thread.run.failed or error, the generation
\* reads no more of it and the assistant message it leaves displayed is
\* "Repite la solicitud por favor.", whatever deltas came before, flushed or
\* still buffered.
FailedRunLeavesRetryPrompt ==
    \A k \in Turns :
        gen[k].terminal = "failed" =>
            /\ gen[k].pc \in {"drain", "finally"}
            /\ gen[k].pc = "finally" => messages[Len(messages)].content = RetryText

(***************************************************************************)
(* The cleared chat.                                                       *)
(***************************************************************************)
Cleared ==
    /\ messages = <<Welcome>>
    /\ thread_id = None
    /\ file_info_list = <<>>
    /\ session_files = <<>>
    /\ ~processing /\ ~streaming /\ ~uploading

\* C13: limpiar_chat leaves the single welcome message, no thread, no files, the
\* three flags False and a remote delete issued for every session file; and the
\* cleared state stays as it is through every step that is not a send_message or
\* a handle_upload of the user, also the steps of a generation that was in flight
\* when the chat was cleared.
ClearedStatePersists ==
    [][/\ Len(messages') < Len(messages) =>
              /\ Cleared'
              /\ \A i \in 1..Len(session_files) :
                     session_files[i].file_id \in remote_deleted'
       /\ (Cleared /\ turn' = turn /\ lock = "free" /\ lock' = "free") => Cleared']_vars

(***************************************************************************)
(* SpecUpload, the upload specification: the page is loaded with           *)
(* initialize_chat; the user uploads batches of up to MaxBatch files whose *)
(* names are drawn from UploadNames, repeated names and names already      *)
(* uploaded included, deletes files and clears the chat; the clock         *)
(* advances and cleanup_by_timestamp sweeps.  Each file of a batch ends in *)
(* one of UploadCases.  No message is sent.                                *)
(***************************************************************************)
MaxBatch == 2          \* files per batch (upload specification)
UploadFiles == 3       \* remote files created per behaviour (upload specification)
UploadLoads == 1       \* initialize_chat calls per behaviour (upload specification)
UploadTicks == 1       \* clock steps per behaviour (upload specification)

UploadNames == {"a.pdf", "B.PDF", "c.txt"}

Batches == UNION {[1..n -> UploadNames] : n \in 0..MaxBatch}

\* a PDF without native text whose OCR gives text, and one whose second page raises
OcrUploaded ==
    [Uploaded EXCEPT !.text = <<>>,
                     !.ocr = [raster_raises |-> FALSE,
                              pages |-> << [raises |-> FALSE, text |-> <<"x">>] >>]]
OcrRaises ==
    [Uploaded EXCEPT !.text = <<>>,
                     !.ocr = [raster_raises |-> FALSE,
                              pages |-> << [raises |-> FALSE, text |-> <<"x">>],
                                           [raises |-> TRUE, text |-> <<>>] >>]]

UploadCases == UploadOutcomes \cup {OcrUploaded, OcrRaises}

UploadLimits ==
    [turns |-> 0, files |-> UploadFiles, events |-> 0, think |-> 0,
     loads |-> UploadLoads, ticks |-> UploadTicks,
     toasts |-> FALSE]

InitUpload == InitWith(TRUE, TRUE, UploadLimits)

NextUpload ==
    \/ Alive /\ initialize_chat
    \/ Alive /\ Tick(SweepInterval + MaxFileAge + 1)
    \/ Alive /\ UploadStep(Batches, UploadCases)
    \/ Alive /\ \E id \in ListedFileIds, ok \in BOOLEAN : delete_file(id, ok)
    \/ Alive /\ limpiar_chat
    \/ Alive /\ \E j \in Loads : AgeStep(j)

SpecUpload == InitUpload /\ [][NextUpload]_vars

\* the entry of the file that the step just taken has finished handling
JustHandled == upl'.handled[Len(upl'.handled)]
HandledOne == lock = "upload" /\ Len(upl'.handled) = Len(upl.handled) + 1

\* C14: file_info_list never holds two entries with the same filename, after any
\* sequence of uploads (names repeated inside a batch included), deletes, clears
\* and sweeps; and the step that rejects a file as a duplicate creates no remote
\* file and leaves file_info_list and session_files as they are.
FilenamesAreUnique ==
    [][/\ \A m, n \in 1..Len(file_info_list') :
              file_info_list'[m].filename = file_info_list'[n].filename => m = n
       /\ (HandledOne /\ JustHandled.outcome = "duplicate") =>
              /\ IsDuplicate(JustHandled.name, file_info_list)
              /\ UNCHANGED <<next_file, file_info_list, session_files>>]_vars

\* C14, its case: a batch that names the same file twice has registered it once
\* and rejected it once.
RepeatedNameRejected ==
    /\ lock = "upload"
    /\ Len(upl.handled) = 2
    /\ upl.files[1] = upl.files[2]
    /\ upl.handled[1].outcome = "uploaded"
    /\ upl.handled[2].outcome = "duplicate"
    /\ Len(file_info_list) = Len(upl.base.file_info_list) + 1

\* the entries of a batch whose remote upload succeeded
WasUploaded(h) == h.outcome = "uploaded"
UploadedOf(handled) == SelectSeq(handled, WasUploaded)

\* l is base followed by one entry for each uploaded file, in batch order
GainedExactly(l, base, handled) ==
    /\ Len(l) = Len(base) + Len(UploadedOf(handled))
    /\ SubSeq(l, 1, Len(base)) = base
    /\ \A n \in 1..Len(UploadedOf(handled)) :
           /\ l[Len(base) + n].file_id = UploadedOf(handled)[n].file_id
           /\ l[Len(base) + n].filename = UploadedOf(handled)[n].name

\* C15: no failure of a file (the extraction raises, no text, the OCR fails,
\* files.create answers APIError or raises) stops the batch: every file of the
\* batch is handled, files.create succeeded for exactly the files registered, and
\* when handle_upload returns file_info_list and session_files are what they were
\* when it started followed by the uploaded files in batch order, and uploading
\* is False.
BatchSurvivesFailures ==
    [][/\ lock' = "upload" =>
              /\ GainedExactly(file_info_list', upl'.base.file_info_list, upl'.handled)
              /\ GainedExactly(session_files', upl'.base.session_files, upl'.handled)
              /\ \A n \in 1..Len(upl'.handled) :
                     /\ upl'.handled[n].name = upl'.files[n]
                     /\ WasUploaded(upl'.handled[n]) =>
                            (upl'.handled[n].f.read /\ upl'.handled[n].f.create = "ok")
       /\ (lock = "upload" /\ lock' = "free") =>
              /\ Len(upl.handled) = Len(upl.files)
              /\ UNCHANGED <<file_info_list, session_files>>
              /\ ~uploading']_vars

\* C15, its case: the first file of a batch raised and the second was uploaded
\* and registered.
UploadedAfterFailure ==
    /\ lock = "upload"
    /\ Len(upl.handled) = 2
    /\ upl.handled[1].outcome = "exception"
    /\ upl.handled[2].outcome = "uploaded"
    /\ file_info_list # <<>>
    /\ file_info_list[Len(file_info_list)].filename = upl.files[2]

\* C19: once handle_upload has handled the i-th of the n files of a batch,
\* whatever the outcome, upload_progress = round(i / n * 100); so it is 100 when
\* the last file has been handled.
ProgressFollowsEveryFile ==
    (lock = "upload" /\ upl.pc = "file" /\ upl.handled # <<>>) =>
        upload_progress = PyRoundPercent(Len(upl.handled), Len(upl.files))

(***************************************************************************)
(* SpecOcr, the extraction specification: the user uploads one file at a   *)
(* time, named from UploadNames, deletes files and clears the chat.  The   *)
(* extraction raises or returns one of NativeTexts; the rasterizer raises  *)
(* or gives up to MaxPages pages, each of which the recognizer reads as    *)
(* nothing, reads as text or fails on; files.create succeeds, answers      *)
(* APIError or raises.                                                     *)
(***************************************************************************)
MaxPages == 2          \* pages of a PDF (extraction specification)
OcrFiles == 2          \* remote files created per behaviour (extraction specification)

\* nothing, blanks only, one character short of the threshold, the threshold, and
\* one character short of it between two blanks
NativeTexts ==
    {<<>>, Spaces(2), Letters(MinTextLength - 1), Letters(MinTextLength),
     Spaces(1) \o Letters(MinTextLength - 1) \o Spaces(1)}

PageResults ==
    {[raises |-> TRUE, text |-> <<>>], [raises |-> FALSE, text |-> <<>>],
     [raises |-> FALSE, text |-> <<"x">>]}

OcrBehaviours ==
    {[raster_raises |-> TRUE, pages |-> <<>>]} \cup
    {[raster_raises |-> FALSE, pages |-> p] :
        p \in UNION {[1..n -> PageResults] : n \in 0..MaxPages}}

\* after a read that raises nothing else of the behaviour is consulted
FileBehaviours ==
    {f \in [read : BOOLEAN, text : NativeTexts, ocr : OcrBehaviours,
            create : {"ok", "api_error", "raises"}] :
        ~f.read => (f.text = <<>> /\ f.ocr = NoOcr /\ f.create = "ok")}

SingleBatches == {<<name>> : name \in UploadNames}

OcrLimits ==
    [turns |-> 0, files |-> OcrFiles, events |-> 0, think |-> 0,
     loads |-> 0, ticks |-> 0,
     toasts |-> FALSE]

InitOcr == InitWith(TRUE, TRUE, OcrLimits)

NextOcr ==
    \/ Alive /\ UploadStep(SingleBatches, FileBehaviours)
    \/ Alive /\ \E id \in ListedFileIds, ok \in BOOLEAN : delete_file(id, ok)
    \/ Alive /\ limpiar_chat

SpecOcr == InitOcr /\ [][NextOcr]_vars

\* the files of the batch at hand that were read: not rejected as duplicates, and
\* file.read and the extraction returned
WasRead(h) == h.outcome # "duplicate" /\ h.f.read
ReadFiles == SelectSeq(upl.handled, WasRead)

PdfNames == {"a.pdf", "B.PDF"}

\* C16 as stated: the OCR is invoked for a file iff it is a PDF and the text
\* extracted from it is empty or shorter than 100 characters.
OcrIffShortPdf ==
    \A n \in 1..Len(ReadFiles) :
        ReadFiles[n].ocr <=>
            (ReadFiles[n].name \in PdfNames /\ Len(ReadFiles[n].f.text) < MinTextLength)

\* C16: the OCR is invoked for a file iff it is a PDF (its name ends with .pdf in
\* any letter case) and the text extracted from it, without its leading and
\* trailing whitespace, is shorter than 100 characters; it is never invoked for a
\* file rejected as a duplicate or whose extraction raised.
OcrIffShortStrippedPdf ==
    \A n \in 1..Len(upl.handled) :
        upl.handled[n].ocr <=>
            /\ WasRead(upl.handled[n])
            /\ upl.handled[n].name \in PdfNames
            /\ Len(Strip(upl.handled[n].f.text)) < MinTextLength

\* C16, its case: a PDF named in capitals whose extracted text has 101 characters,
\* 99 without the blanks around them, went through the OCR and was uploaded.
OcrOnPaddedText ==
    /\ upl.handled # <<>>
    /\ upl.handled[1].name = "B.PDF"
    /\ upl.handled[1].f.text = Spaces(1) \o Letters(MinTextLength - 1) \o Spaces(1)
    /\ upl.handled[1].ocr
    /\ upl.handled[1].outcome = "uploaded"

\* the text the OCR gives for a PDF: the texts of its pages joined by newlines,
\* if nothing raised
OcrOutput(h) == perform_ocr_with_progress(h.f.ocr, h.name, NoUploadError).text

\* C17 as stated: for every PDF whose extracted text is shorter than 100
\* characters the OCR is invoked; if its output is not empty the text uploaded is
\* that output, and if its output is empty or whitespace only the extracted text
\* is not replaced: it is still the text of the file.
BlankOcrKeepsExtractedText ==
    \A n \in 1..Len(ReadFiles) :
        LET h == ReadFiles[n] IN
        (h.name \in PdfNames /\ Len(h.f.text) < MinTextLength) =>
            /\ h.ocr
            /\ ~NoText(OcrOutput(h)) => h.text = OcrOutput(h)
            /\ (NoText(OcrOutput(h)) /\ ~NoText(h.f.text)) =>
                   /\ h.outcome # "ocr_failed"
                   /\ h.text = h.f.text

\* C17: for every PDF whose extracted text is shorter than 100 characters the OCR
\* is invoked; if its output is not empty and not whitespace
\* only, the text handed to files.create is that output; if its output is empty
\* or whitespace only, the file is an OCR failure: nothing is handed to
\* files.create, not the extracted text either, and no file is registered.
OcrOutputIsUploadedOrFileDropped ==
    \A n \in 1..Len(ReadFiles) :
        LET h == ReadFiles[n] IN
        (h.name \in PdfNames /\ Len(h.f.text) < MinTextLength) =>
            /\ h.ocr
            /\ ~NoText(OcrOutput(h)) =>
                   /\ h.outcome \in {"uploaded", "api_error", "exception"}
                   /\ h.text = OcrOutput(h)
            /\ NoText(OcrOutput(h)) =>
                   /\ h.outcome = "ocr_failed"
                   /\ h.text = <<>>
                   /\ h.file_id = 0

\* C17, its case: a PDF with 99 extracted characters whose two pages the OCR reads
\* as nothing was dropped.
ShortPdfDroppedAfterBlankOcr ==
    /\ upl.handled # <<>>
    /\ upl.handled[1].name \in PdfNames
    /\ upl.handled[1].f.text = Letters(MinTextLength - 1)
    /\ Len(upl.handled[1].f.ocr.pages) = 2
    /\ OcrOutput(upl.handled[1]) = <<"\n">>
    /\ upl.handled[1].outcome = "ocr_failed"
    /\ file_info_list = upl.base.file_info_list

\* rasterization raised, or the recognition of some page did
OcrRaised(ocr) == ocr.raster_raises \/ \E n \in 1..Len(ocr.pages) : ocr.pages[n].raises

\* C18: when the rasterization or the recognition of a page raises, the last value
\* _perform_ocr_with_progress yields is the empty string, and when handle_upload
\* has handled the file upload_error is the OCR error of that file,
\* is_performing_ocr is False, ocr_progress is empty and no file was created or
\* registered for it.
OcrFailureYieldsNothing ==
    [][(HandledOne /\ JustHandled.ocr /\ OcrRaised(JustHandled.f.ocr)) =>
           /\ OcrOutput(JustHandled) = <<>>
           /\ JustHandled.outcome = "ocr_failed"
           /\ upload_error' = UploadError("ocr", JustHandled.name)
           /\ ~is_performing_ocr'
           /\ ocr_progress' = NoOcrProgress
           /\ UNCHANGED <<next_file, file_info_list, session_files>>]_vars

\* C18, its case: the first page of a PDF was read as text, the second raised, and
\* nothing was uploaded.
SecondPageRaised ==
    /\ upl.handled # <<>>
    /\ upl.handled[1].ocr
    /\ Len(upl.handled[1].f.ocr.pages) = 2
    /\ upl.handled[1].f.ocr.pages[1] = [raises |-> FALSE, text |-> <<"x">>]
    /\ upl.handled[1].f.ocr.pages[2].raises
    /\ upl.handled[1].outcome = "ocr_failed"
    /\ upload_error = UploadError("ocr", upl.handled[1].name)
    /\ ~is_performing_ocr

(***************************************************************************)
(* SpecConfig, the credentials specification: a session with or without    *)
(* an API key and with or without an assistant id; the page is loaded, the *)
(* user sends a message, uploads a file and deletes the file listed, or    *)
(* asks for the deletion of file id 1, which the remote API refuses when   *)
(* it is not listed; the notifications are recorded.                       *)
(***************************************************************************)
ConfigTurns == 1       \* send_message calls per behaviour (credentials specification)
ConfigFiles == 1       \* remote files created per behaviour (credentials specification)
ConfigLoads == 1       \* initialize_chat calls per behaviour (credentials specification)

ConfigLimits ==
    [turns |-> ConfigTurns, files |-> ConfigFiles, events |-> 0, think |-> MaxThink,
     loads |-> ConfigLoads, ticks |-> 0,
     toasts |-> TRUE]

InitConfig == \E key \in BOOLEAN, aid \in BOOLEAN : InitWith(key, aid, ConfigLimits)

NextConfig ==
    \/ Alive /\ initialize_chat
    \/ Alive /\ \E p \in Prompts : send_message(p)
    \/ Alive /\ UploadStep(SingleBatches \cup {<<>>}, UploadCases)
    \/ Alive /\ \E id \in ListedFileIds \cup {1}, ok \in BOOLEAN :
                    (ok => id \in ListedFileIds) /\ delete_file(id, ok)
    \/ Alive /\ \E k \in Turns : TimerStep(k)
    \/ Alive /\ \E k \in Turns : GenStep(k, {TRUE}, {"ok"}, {"thread.run.completed"})

SpecConfig == InitConfig /\ [][NextConfig]_vars

\* C20: in a session whose API key or assistant id is not configured, no step of
\* send_message, handle_upload or delete_file calls the remote API (no thread and
\* no file is created, no file is deleted) or changes messages, thread_id,
\* file_info_list or session_files, processing stays False, every notification
\* emitted is an error, and initialize_chat, which may add the welcome message,
\* starts no janitor.
NoCredentialsNoEffect ==
    [][~has_api_keys =>
           /\ UNCHANGED <<next_thread, next_file, remote_deleted>>
           /\ UNCHANGED <<thread_id, file_info_list, session_files>>
           /\ messages' = messages \/ (messages = <<>> /\ messages' = <<Welcome>>)
           /\ ~processing'
           /\ toast' # toast => toast'.level = "error"
           /\ UNCHANGED janitorVars]_vars

(***************************************************************************)
(* The deletion specification: one generation, two uploads, one page load  *)
(* with both janitors, one clock step that makes the files uploaded before *)
(* it old, and the user's delete_file and limpiar_chat; the thread is lost *)
(* remotely, so that the liveness janitor cleans up.                       *)
(***************************************************************************)
DeleteTurns == 1       \* generations
DeleteFiles == 2       \* remote files created per behaviour
DeleteLoads == 1       \* page loads (initialize_chat)
DeleteTicks == 1       \* clock steps per behaviour

DeleteLimits ==
    [turns |-> DeleteTurns, files |-> DeleteFiles, events |-> 0, think |-> 0,
     loads |-> DeleteLoads, ticks |-> DeleteTicks,
     toasts |-> FALSE]

InitDelete == InitWith(TRUE, TRUE, DeleteLimits)

NextDelete ==
    \/ Alive /\ initialize_chat
    \/ Alive /\ Tick(SweepInterval + MaxFileAge + 1)
    \/ Alive /\ \E p \in Prompts : send_message(p)
    \/ Alive /\ UploadStep(NextBatch, {Uploaded})
    \/ Alive /\ \E id \in ListedFileIds, ok \in BOOLEAN : delete_file(id, ok)
    \/ Alive /\ limpiar_chat
    \/ Alive /\ \E k \in Turns : GenStep(k, {TRUE}, {"ok"}, {"thread.run.completed"})
    \/ Alive /\ \E j \in Loads : MonitorStep(j, LostThread)
    \/ Alive /\ \E j \in Loads : AgeStep(j)

SpecDelete == InitDelete /\ [][NextDelete]_vars

\* the file ids of a list of file entries
IdSet(fs) == {fs[i].file_id : i \in 1..Len(fs)}

\* the delete loop over fs, run once more after it has run, meets only deleted
\* files: it ends without an exception and deletes nothing new
SecondPassChangesNothing(fs) ==
    DeleteAll(fs, remote_deleted') = [raised |-> FALSE, deleted |-> remote_deleted']

\* C21: a file the remote API reports as already deleted ends no deletion path
\* with an exception.  delete_file answers it with a notification and leaves
\* the lists alone; no janitor loop crashes; the sweep of the age janitor, of
\* the liveness janitor and of cleanup_session_files still issues the delete of
\* every file of the sweep, the locked update that follows drops exactly the
\* swept entries, and the same sweep run again deletes nothing more and leaves
\* the same lists.
AlreadyDeletedIsHarmless ==
    [][/\ \A j \in Loads : mon'[j].pc # "crashed" /\ age'[j].pc # "crashed"
       /\ \A id \in ListedFileIds \cap remote_deleted :
              delete_file(id, FALSE) =>
                  UNCHANGED <<file_info_list, session_files, remote_deleted>>
       /\ limpiar_chat =>
              /\ session_files' = <<>>
              /\ IdSet(session_files) \subseteq remote_deleted'
              /\ SecondPassChangesNothing(session_files)
              /\ cleanup_session_files_result' = <<>>
       /\ \A j \in Loads :
              /\ (mon[j].pc = "retrieve" /\ mon'[j].pc = "orphan_update") =>
                     /\ IdSet(session_files) \subseteq remote_deleted'
                     /\ SecondPassChangesNothing(session_files)
              /\ (mon[j].pc = "orphan_update" /\ mon'[j].pc # "orphan_update") =>
                     session_files' = <<>>
              /\ (age[j].pc = "sleep" /\ age'[j].pc = "update") =>
                     /\ IdSet(age'[j].old_files) \subseteq remote_deleted'
                     /\ SecondPassChangesNothing(age'[j].old_files)
              /\ (age[j].pc = "update" /\ age'[j].pc # "update") =>
                     /\ IdSet(session_files') = IdSet(session_files) \ IdSet(age[j].old_files)
                     /\ SelectSeq(session_files', LAMBDA f : IsOld(f, age[j].current_time))
                            = <<>>
      ]_vars

\* both janitors have swept the same file, so the later of the two loops met a
\* file already deleted, and the liveness janitor deleted a second file too
SweptTwice ==
    \E j \in Loads :
        /\ age[j].pc = "update"
        /\ mon[j].pc = "orphan_update"
        /\ Len(session_files) = 2
        /\ IdSet(age[j].old_files) = {session_files[1].file_id}
        /\ IdSet(session_files) \subseteq remote_deleted

(***************************************************************************)
(* The background-task specification: two page loads, a turn with its      *)
(* timer, an upload, delete_file, limpiar_chat and one clock step that     *)
(* wakes the janitors and makes the file uploaded before it old.           *)
(***************************************************************************)
TaskTurns == 1         \* generations
TaskFiles == 1         \* remote files created per behaviour
TaskThink == 1         \* cap of thinking_seconds
TaskLoads == 2         \* page loads (initialize_chat)
TaskTicks == 1         \* clock steps per behaviour

TaskLimits ==
    [turns |-> TaskTurns, files |-> TaskFiles, events |-> 0, think |-> TaskThink,
     loads |-> TaskLoads, ticks |-> TaskTicks,
     toasts |-> FALSE]

InitTasks == InitWith(TRUE, TRUE, TaskLimits)

NextTasks ==
    \/ Alive /\ initialize_chat
    \/ Alive /\ Tick(SweepInterval + MaxFileAge + 1)
    \/ Alive /\ \E p \in Prompts : send_message(p)
    \/ Alive /\ UploadStep(NextBatch, {Uploaded})
    \/ Alive /\ \E id \in ListedFileIds, ok \in BOOLEAN : delete_file(id, ok)
    \/ Alive /\ limpiar_chat
    \/ Alive /\ \E k \in Turns : TimerStep(k)
    \/ Alive /\ \E k \in Turns : GenStep(k, {TRUE}, {"ok"}, {"thread.run.completed"})
    \/ Alive /\ \E j \in Loads : MonitorStep(j, LostThread)
    \/ Alive /\ \E j \in Loads : AgeStep(j)

SpecTasks == InitTasks /\ [][NextTasks]_vars

\* the background tasks that have started and not ended
LiveTimers == {k \in Turns : tmr[k].pc \in {"first_check", "check", "sleep", "timeout"}}
LiveMonitors == {j \in Loads : mon[j].pc \notin {"idle", "crashed"}}
LiveSweepers == {j \in Loads : age[j].pc \notin {"idle", "crashed"}}

\* C22: at any time at most one thinking_timer, at most one
\* monitor_session_health loop and at most one cleanup_by_timestamp loop of the
\* session is live.
AtMostOneTaskOfEachKind ==
    /\ Cardinality(LiveTimers) <= 1
    /\ Cardinality(LiveMonitors) <= 1
    /\ Cardinality(LiveSweepers) <= 1

\* a janitor loop that runs no more
Stopped(task) == task.pc \notin {"sleep", "retrieve", "orphan_update", "update"}

\* session_files held files and holds none now
FilesGone == next_file > 0 /\ session_files = <<>>

\* C23: each background loop ends once its guard has gone false: a
\* thinking_timer that tests processing and finds it False is done, and a
\* monitor_session_health or cleanup_by_timestamp loop that wakes after
\* session_files has become empty, and so has run its one further iteration,
\* does not go back to sleep for another.
LoopsEndWithTheirGuard ==
    [][/\ \A k \in Turns :
              (tmr[k].pc \in {"first_check", "check"} /\ tmr'[k] # tmr[k] /\ ~processing)
                  => tmr'[k].pc = "done"
       /\ \A j \in Loads :
              /\ (mon[j].pc = "sleep" /\ mon'[j] # mon[j] /\ FilesGone /\ FilesGone')
                     => Stopped(mon'[j])
              /\ (age[j].pc = "sleep" /\ age'[j] # age[j] /\ FilesGone /\ FilesGone')
                     => Stopped(age'[j])
      ]_vars

(***************************************************************************)
(* The notebook exporter (lines 712-757 and 903-937)                       *)
(***************************************************************************)
\* everything but the notebook fields and the notification
chatVars == <<messages, thread_id, flagVars, fileVars, uploading, upload_progress, lock,
              upl, upload_error, is_performing_ocr, ocr_progress, openai_api_key,
              assistant_id, limits, temp_files, turn, gen, tmr, janitorVars, clockVars,
              next_thread>>

\* one string of a cell's source: an f-string, given by its template and the
\* value it formats (a number or a text)
Line(template, number, text) == [template |-> template, number |-> number, text |-> text]

\* lines 910-913; stamp is datetime.now()
TitleCell(title, stamp) ==
    [cell_type |-> "markdown",
     source |-> << Line("# {title}", 0, title),
                   Line("*Notebook generado automaticamente el {now}*", stamp, <<>>),
                   Line("---", 0, <<>>) >>]

\* lines 918-921; i is the index enumerate gives the message
ConsultaCell(i, message) ==
    [cell_type |-> "markdown",
     source |-> << Line("## Consulta {(i//2) + 1}", (i \div 2) + 1, <<>>),
                   Line("{content}", 0, message.content) >>]

\* lines 923-926
RespuestaCell(message) ==
    [cell_type |-> "markdown",
     source |-> << Line("### Respuesta del Asistente", 0, <<>>),
                   Line("{content}", 0, message.content),
                   Line("---", 0, <<>>) >>]

\* lines 916-926: the loop over enumerate(chat_messages), from index i on
RECURSIVE MessageCells(_, _)
MessageCells(chat_messages, i) ==
    IF i >= Len(chat_messages) THEN <<>>
    ELSE LET message == chat_messages[i + 1]
             rest == MessageCells(chat_messages, i + 1)
         IN IF message.role = "user" THEN <<ConsultaCell(i, message)>> \o rest
            ELSE IF message.role = "assistant" THEN <<RespuestaCell(message)>> \o rest
            ELSE rest

\* a converter that exports the consultations only
NotebookOfConsultations(chat_messages, title, stamp) ==
    [cells |-> <<TitleCell(title, stamp)>> \o
               MessageCells(SelectSeq(chat_messages, LAMBDA m : m.role = "user"), 0),
     metadata |-> "legal_analysis"]

\* _convert_chat_to_notebook (lines 903-937)
convert_chat_to_notebook(chat_messages, title, stamp) ==
    [cells |-> <<TitleCell(title, stamp)>> \o MessageCells(chat_messages, 0),
     metadata |-> "legal_analysis"]

\* the setter of notebook_title
set_notebook_title(value) ==
    /\ lock = "free"
    /\ notebook_title' = value
    /\ UNCHANGED <<show_notebook_dialog, saved_notebook, toast, chatVars>>

\* lines 712-718
show_create_notebook_dialog ==
    /\ lock = "free"
    /\ IF Len(messages) < 2
       THEN /\ toast' = Notify("error", "show_create_notebook_dialog")
            /\ UNCHANGED show_notebook_dialog
       ELSE /\ show_notebook_dialog' = TRUE
            /\ UNCHANGED toast
    /\ UNCHANGED <<notebook_title, saved_notebook, chatVars>>

\* lines 720-723
hide_create_notebook_dialog ==
    /\ lock = "free"
    /\ show_notebook_dialog' = FALSE
    /\ UNCHANGED <<notebook_title, saved_notebook, toast, chatVars>>

\* lines 725-757; committed: session.add and session.commit succeed.  The
\* record holds json.dumps of the document.
create_notebook_from_current_chat(committed) ==
    /\ lock = "free"
    /\ IF Strip(notebook_title) = <<>>
       THEN /\ toast' = Notify("error", "create_notebook_from_current_chat")
            /\ UNCHANGED notebookVars
       ELSE LET title_to_use == Strip(notebook_title)
                notebook_content == convert_chat_to_notebook(messages, title_to_use, now)
            IN IF committed
               THEN /\ saved_notebook' = [title |-> title_to_use,
                                          content |-> notebook_content,
                                          notebook_type |-> "analysis",
                                          workspace_id |-> "public"]
                    /\ show_notebook_dialog' = FALSE
                    /\ notebook_title' = <<>>
                    /\ toast' = Notify("success", "create_notebook_from_current_chat")
               ELSE /\ toast' = Notify("error", "create_notebook_from_current_chat")
                    /\ UNCHANGED notebookVars
    /\ UNCHANGED chatVars

(***************************************************************************)
(* The notebook specification: two turns whose generations end in every    *)
(* way, limpiar_chat, and the notebook dialog with empty, blank, plain and *)
(* padded titles.                                                          *)
(***************************************************************************)
NotebookTurns == 2     \* generations

Titles == {<<>>, <<" ">>, <<"T">>, <<" ", "T", " ">>}

NotebookLimits ==
    [turns |-> NotebookTurns, files |-> 0, events |-> 0, think |-> 0,
     loads |-> 0, ticks |-> 0,
     toasts |-> FALSE]

InitNotebook == InitWith(TRUE, TRUE, NotebookLimits)

NextNotebook ==
    \/ Alive /\ initialize_chat_simple
    \/ Alive /\ \E p \in Prompts : send_message(p)
    \/ Alive /\ limpiar_chat
    \/ Alive /\ \E k \in Turns : GenStep(k, {TRUE}, RunOutcomes, RunEvents)
    \/ Alive /\ \E t \in Titles : set_notebook_title(t)
    \/ Alive /\ show_create_notebook_dialog
    \/ Alive /\ hide_create_notebook_dialog
    \/ Alive /\ \E committed \in BOOLEAN : create_notebook_from_current_chat(committed)

SpecNotebook == InitNotebook /\ [][NextNotebook]_vars

\* the strings of a cell that hold a text
TextsOf(cell) ==
    SelectSeq([n \in 1..Len(cell.source) |-> cell.source[n].text], LAMBDA t : t # <<>>)

Heading(cell) == cell.source[1].template

\* C24: the document saved from the chat has one title cell followed by exactly
\* one cell per message, in message order: a consultation cell for a user
\* message and a response cell for an assistant message, each holding that
\* message's content; and the conversion leaves the message list as it was.
NotebookHasOneCellPerMessage ==
    [][saved_notebook' # saved_notebook =>
          LET cells == saved_notebook'.content.cells
          IN /\ Len(cells) = Len(messages) + 1
             /\ Heading(cells[1]) = "# {title}"
             /\ cells[1].source[1].text = saved_notebook'.title
             /\ \A i \in 1..Len(messages) :
                    /\ TextsOf(cells[i + 1]) = <<messages[i].content>>
                    /\ messages[i].role = "user"
                           => Heading(cells[i + 1]) = "## Consulta {(i//2) + 1}"
                    /\ messages[i].role = "assistant"
                           => Heading(cells[i + 1]) = "### Respuesta del Asistente"
             /\ messages' = messages
      ]_vars

\* a notebook of two exchanges has been saved
TwoExchangesSaved ==
    /\ Len(saved_notebook.content.cells) = 6
    /\ saved_notebook.content.cells[5].source[1].number = 2

\* the content of the message displayed last
Displayed == messages[Len(messages)].content

IsPrefix(s, t) == Len(s) <= Len(t) /\ SubSeq(t, 1, Len(s)) = s

\* C25: when a generation ends whose stream held at least one text delta and
\* ended with thread.run.completed, the message displayed is the concatenation
\* of all the text deltas in arrival order (gen[k].deltas records them as they
\* arrive), and every content a flush displays is a prefix of it.
DisplayedTextIsAllDeltas ==
    [][\A k \in Turns :
          /\ (gen[k].pc = "flush" /\ gen'[k].pc # "flush")
                 => IsPrefix(Displayed', gen[k].deltas)
          /\ (InFlight(k) /\ ~InFlight(k)' /\ gen[k].terminal = "completed"
                  /\ gen[k].deltas # <<>>)
                 => Displayed' = gen[k].deltas
      ]_vars

\* C26: once the generation of a turn has ended (it is past its finally block)
\* and the thinking_timer started with it has stopped, thinking_seconds is 0.
CounterRestsAtZero ==
    \A k \in Turns :
        (gen[k].pc \in {"reset_queued", "done"} /\ tmr[k].pc = "done")
            => thinking_seconds = 0

(***************************************************************************)
(* The temp-file specification: batches of up to MaxBatch files whose      *)
(* temporary file is written and uploaded, or whose write or upload fails. *)
(***************************************************************************)
TempFiles == 2         \* remote files created per behaviour

WriteRaises == [Uploaded EXCEPT !.create = "write_raises"]

TempCases == UploadCases \cup {WriteRaises}

TempLimits ==
    [turns |-> 0, files |-> TempFiles, events |-> 0, think |-> 0,
     loads |-> 0, ticks |-> 0,
     toasts |-> FALSE]

InitTemp == InitWith(TRUE, TRUE, TempLimits)

NextTemp ==
    \/ Alive /\ UploadStep(Batches, TempCases)
    \/ Alive /\ \E id \in ListedFileIds, ok \in BOOLEAN : delete_file(id, ok)
    \/ Alive /\ limpiar_chat

SpecTemp == InitTemp /\ [][NextTemp]_vars

\* C27: when handle_upload has returned, no temporary '<name>_processed.txt'
\* file that it created remains in the temp directory, whatever happened to each
\* file of the batch.
NoTempFileRemains == upl.pc = "idle" => temp_files = {}

(***************************************************************************)
(* The tool specification with the scheduling the event loop gives: a task *)
(* that can take its next step (the stream has delivered an event or has   *)
(* ended, an awaited call has returned) takes it.  The user is not obliged *)
(* to do anything.                                                         *)
(***************************************************************************)
GenerationStep(k) ==
    \/ GenStep(k, BOOLEAN, RunOutcomes, RunEvents)
    \/ StreamFailStep(k)
    \/ DeltaStep(k, ToolChunks)
    \/ ToolStep(k, ToolCallLists)

SpecToolsFair ==
    /\ InitTools
    /\ [][NextTools]_vars
    /\ \A k \in 1..ToolTurns : WF_vars(Alive /\ GenerationStep(k))
    /\ \A k \in 1..ToolTurns : WF_vars(Alive /\ TimerStep(k))

\* C28: every generation started by send_message eventually ends, with
\* processing and streaming False, whatever finite stream the remote API
\* delivers.
GenerationsTerminate ==
    \A k \in 1..ToolTurns :
        (gen[k].pc = "queued")
            ~> (gen[k].pc \in {"reset_queued", "done"} /\ ~processing /\ ~streaming)

\* C29: no remote file is leaked: every file the session has uploaded (the
\* remote API numbers them 1..next_file) is still in session_files or has had a
\* remote delete issued for its id.
NoRemoteFileLeaked ==
    \A id \in 1..next_file : id \in IdSet(session_files) \/ id \in remote_deleted

\* C30: every entry of file_info_list refers to a remote file for which the
\* session has issued no delete, so that a filename is rejected as a duplicate
\* (it is the filename of an entry of file_info_list) only while a file of that
\* name is still registered remotely.  Stated of the states in which no janitor
\* is between its remote deletes and its update of the lists.
ListedFilesExistRemotely ==
    (\A j \in Loads : age[j].pc # "update" /\ mon[j].pc # "orphan_update")
        => \A i \in 1..Len(file_info_list) :
               file_info_list[i].file_id \notin remote_deleted

(***************************************************************************)
(* The orphan specification: two generations (so that the session can have *)
(* a first and then a second thread), two uploads, one page load with its  *)
(* janitors, of which the liveness janitor is followed, one clock step of  *)
(* the monitor's interval, and the user's limpiar_chat; the remote API     *)
(* answers the liveness check with not-found.  The user uploads between    *)
(* generations, not during one.                                            *)
(***************************************************************************)
OrphanTurns == 2       \* generations
OrphanFiles == 2       \* remote files created per behaviour
OrphanLoads == 1       \* page loads (initialize_chat)
OrphanTicks == 1       \* clock steps per behaviour

OrphanLimits ==
    [turns |-> OrphanTurns, files |-> OrphanFiles, events |-> 0, think |-> 0,
     loads |-> OrphanLoads, ticks |-> OrphanTicks,
     toasts |-> FALSE]

InitOrphan == InitWith(TRUE, TRUE, OrphanLimits)

\* no generation is between its start and the end of its finally block
NoGenerationRunning == \A k \in Turns : gen[k].pc \in {"idle", "done"}

NextOrphan ==
    \/ Alive /\ initialize_chat
    \/ Alive /\ Tick(MonitorInterval)
    \/ Alive /\ \E p \in Prompts : send_message(p)
    \/ Alive /\ NoGenerationRunning /\ UploadStep(NextBatch, {Uploaded})
    \/ Alive /\ limpiar_chat
    \/ Alive /\ \E k \in Turns : GenStep(k, {TRUE}, {"ok"}, {"thread.run.completed"})
    \/ Alive /\ \E j \in Loads : MonitorStep(j, LostThread)

SpecOrphan == InitOrphan /\ [][NextOrphan]_vars

\* while the retrieve call of janitor j was in flight, or since, the session
\* has moved to a thread other than the one the janitor asked about
MovedOn(j) == mon[j].checked # None /\ thread_id \notin {None, mon[j].checked}

\* the files of the session that the janitor did not see when it made its check
NewFiles(j) == IdSet(session_files) \ IdSet(mon[j].files_at_check)

\* C31: the liveness janitor cleans only the thread that was reported as not
\* found: when the session has moved to another thread id and has uploaded new
\* files while the retrieve call was in flight, the not-found answer deletes
\* none of the new files remotely, and the update that follows neither clears
\* the new thread id nor drops the new files from session_files.
JanitorCleansOnlyLostThread ==
    [][\A j \in Loads :
          MovedOn(j) =>
              /\ (\E e \in LostThread : monitor_session_health_error(j, e)) =>
                     (remote_deleted' \ remote_deleted) \cap NewFiles(j) = {}
              /\ cleanup_orphaned_files_update(j) =>
                     /\ thread_id' = thread_id
                     /\ NewFiles(j) \subseteq IdSet(session_files')]_vars

====
